---- MODULE Spec2Model ----
(***************************************************************************)
(* Declaration-time behaviour of thunder-so/cdk-functions.                 *)
(*                                                                         *)
(* The library runs once, synchronously: the FunctionStack constructor     *)
(* validates the configuration record and declares resources through the   *)
(* FunctionsConstruct, PipelineConstruct and EventsConstruct constructors. *)
(* The state is the configuration, the position inside the constructors,   *)
(* the resources declared so far, the function's environment, the grants   *)
(* on its execution role and the error thrown, if any.                     *)
(*                                                                         *)
(* The repository holds several revisions of the same files:               *)
(*   stack      "main"  src/stack/FunctionStack.ts                         *)
(*              "p3"    src/unnamed/part_003                               *)
(*              "p4"    src/unnamed/part_004                               *)
(*              "p5"    src/unnamed/part_005                               *)
(*   functions  "A"     src/lib/functions.ts lines 1-384                   *)
(*              "B"     src/lib/functions.ts lines 385-784                 *)
(*              "old"   src/unnamed/part_001                               *)
(*   pipeline           src/unnamed/part_002                               *)
(* part_004 builds the property record that only part_001 reads, so "p4"   *)
(* runs with "old"; the other stacks pass their props to src/lib.          *)
(*                                                                         *)
(* Strings that the code only tests for truthiness are "" / Undef / a      *)
(* value; the identity strings and the prefix are sequences of characters. *)
(* The aws-cdk-lib behaviour the model relies on: a construct id must be   *)
(* unique within its scope (constructs.Node.addChild throws otherwise),    *)
(* Function.addEnvironment overwrites the entry of the same key, and       *)
(* grantRead / addToRolePolicy each append one statement to the role.      *)
(***************************************************************************)
EXTENDS Integers, Sequences, FiniteSets, TLC

VARIABLES
    variant,            \* [stack, fn, entry]: which revision of each file runs
    cfg,                \* the configuration record (props), read-only
    pc,                 \* position in the constructors
    err,                \* the error thrown, or NoError
    resources,          \* sequence of declared constructs, in declaration order
    resourceIdPrefix,   \* [stack, fn, pipeline]: this.resourceIdPrefix of each construct
    lambdaEnv,          \* the function's environment: key -> value
    grants,             \* sequence of statements added to the function's execution role
    secretIdx,          \* index of the next entry of the secrets loop
    domainName,         \* TRUE iff this.domainName has been assigned
    buildSpec,          \* the package build project's buildspec values
    apiGateway,         \* this.apiGateway / this.APIGateway: the gateway's properties
    hostedZone,         \* zoneName of the hosted zone createDnsRecords imports (labels), <<>> before
    functionProps,      \* props.functionProps.{runtime, architecture} as the stack receives them
    lambdaFunction,     \* this.lambdaFunction: the properties the function was created with
    alias,              \* the Alias 'LambdaAlias', NoAlias before it is created
    warnings,           \* console.warn lines of the entry point, in order
    codeDirFiles,       \* paths the constructor has copied into this.codeDir
    codePipeline,       \* this.codePipeline: stages, actions and build specs, NoPipeline before
    commits,            \* branches of the pushes GitHub has delivered, in order; a commit's id is its index
    executions,         \* the pipeline's executions: [revision, stage, status]
    artifacts,          \* the artifact bucket: set of [execution, name, stage, files, revision]
    deployRun,          \* the deploy project's running build: [execution, next, files, imageUri, log], NoRun when idle
    lambdaUpdate,       \* the deployed function: [status, code, pending] (LastUpdateStatus and code revision)
    outputs,            \* the CfnOutputs declared so far: [id, exportName, value], in order
    pipelineEvents,     \* the codePipeline prop handed to the EventsConstruct, NoPipeline before
    sanitized,          \* a path on its way through sanitizePath: [input, once, twice, applied]
    app                 \* the App of the entry script: its stacks, and whether synth has run

vars == <<variant, cfg, pc, err, resources, resourceIdPrefix, lambdaEnv,
          grants, secretIdx, domainName, buildSpec,
          apiGateway,
          hostedZone,
          functionProps,
          lambdaFunction,
          alias,
          warnings,
          codeDirFiles,
          codePipeline,
          commits,
          executions,
          artifacts,
          deployRun,
          lambdaUpdate,
          outputs,
          pipelineEvents,
          sanitized,
          app>>

----------------------------------------------------------------------------
(* Bounds of the model *)

\* longest identity string (application, service, environment)
MaxIdLen == 20
\* longest secrets / environmentVariables list
MaxSecrets == 2
\* longest functionProps.include list
MaxInclude == 2
\* longest path handed to sanitizePath
MaxPathLen == 5
\* longest functionProps.variables / buildProps.environment list
MaxVariables == 2

----------------------------------------------------------------------------
(* JavaScript values *)

Undef == "<undefined>"
NoError == "none"

\* JS truthiness of an optional string
Truthy(s) == s \notin {Undef, ""}

\* JS truthiness of a string held as a sequence of characters / of labels
TruthySeq(s) == Len(s) > 0

Min(a, b) == IF a < b THEN a ELSE b

\* String.prototype.substring(0, n)
Substring0(s, n) == SubSeq(s, 1, Min(n, Len(s)))

\* String.prototype.toLowerCase on the model's alphabet
LowerChar(c) ==
    CASE c = "A" -> "a"
      [] c = "D" -> "d"
      [] c = "G" -> "g"
      [] c = "J" -> "j"
      [] c = "M" -> "m"
      [] c = "N" -> "n"
      [] c = "P" -> "p"
      [] c = "R" -> "r"
      [] c = "S" -> "s"
      [] OTHER -> c

ToLowerCase(s) == [i \in 1..Len(s) |-> LowerChar(s[i])]

Dash == <<"-">>

\* String.prototype.startsWith / includes
StartsWith(s, p) == Len(s) >= Len(p) /\ SubSeq(s, 1, Len(p)) = p
Includes(s, p) == \E i \in 1..(Len(s) - Len(p) + 1) : SubSeq(s, i, i + Len(p) - 1) = p

\* a value of props.functionProps.runtime / .architecture: undefined, an object
\* of aws-cdk-lib (Runtime, Architecture) or, the types being erased at run
\* time, a string; name is the object's name or the string's characters
Unset == [tag |-> "undefined", name |-> <<>>]
RuntimeObject(n) == [tag |-> "Runtime", name |-> n]
ArchitectureObject(n) == [tag |-> "Architecture", name |-> n]
StringValue(chars) == [tag |-> "string", name |-> chars]

\* JS truthiness of such a value: undefined and '' are falsy
TruthyValue(v) == v.tag # "undefined" /\ ~(v.tag = "string" /\ v.name = <<>>)

NODEJS_20_X     == RuntimeObject(<<"n", "o", "d", "e", "j", "s", "2", "0", ".", "x">>)
NODEJS_18_X     == RuntimeObject(<<"n", "o", "d", "e", "j", "s", "1", "8", ".", "x">>)
PROVIDED_AL2023 == RuntimeObject(<<"p", "r", "o", "v", "i", "d", "e", "d", ".", "a", "l", "2", "0", "2", "3">>)
ARM_64          == ArchitectureObject(<<"a", "r", "m", "6", "4">>)
X86_64          == ArchitectureObject(<<"x", "8", "6", "_", "6", "4">>)

\* memorySize: ... || 1792 and timeout: ... : Duration.seconds(10)
DefaultMemorySize == 1792
DefaultTimeout == 10

----------------------------------------------------------------------------
(* The resource name prefix *)

\* substring(0, 42) of the stack, the pipeline and revisions A and old
PrefixLimit == 42
\* revision B: each identity part is cut to 7, the whole to 23
PartLimitB == 7
PrefixLimitB == 23

\* `${props.application}-${props.service}-${props.environment}`
IdentityString(c) == c.application \o Dash \o c.service \o Dash \o c.environment

\* the off-by-one bug substring(0, 41)
ResourceIdPrefix42_OffByOne(c) == Substring0(IdentityString(c), PrefixLimit - 1)

\* functions.ts revision A, part_001, part_002, FunctionStack.ts
ResourceIdPrefix42(c) == Substring0(IdentityString(c), PrefixLimit)

\* the bug of leaving out toLowerCase()
ResourceIdPrefixB_NoLowerCase(c) ==
    Substring0(Substring0(c.application, PartLimitB) \o Dash
               \o Substring0(c.service, PartLimitB) \o Dash
               \o Substring0(c.environment, PartLimitB),
               PrefixLimitB)

\* functions.ts revision B
ResourceIdPrefixB(c) ==
    ToLowerCase(Substring0(Substring0(c.application, PartLimitB) \o Dash
                           \o Substring0(c.service, PartLimitB) \o Dash
                           \o Substring0(c.environment, PartLimitB),
                           PrefixLimitB))

\* this.resourceIdPrefix of the FunctionsConstruct of revision fn
FunctionsResourceIdPrefix(fn, c) ==
    IF fn = "B" THEN ResourceIdPrefixB(c) ELSE ResourceIdPrefix42(c)

----------------------------------------------------------------------------
(* Configurations *)

AppAlphabet == <<"A", "b", "c">>
SvcAlphabet == <<"D", "e", "f">>
EnvAlphabet == <<"G", "h", "i">>

\* an identity string of n characters over a three-letter alphabet
IdString(alphabet, n) == [i \in 1..n |-> alphabet[((i - 1) % 3) + 1]]

IdLens == {0, 2, 8, MaxIdLen}

\* an optional number that is not set
NoNumber == 0 - 1

SecretEntries ==
    { [key |-> "K1", resource |-> "r1"],
      [key |-> "K2", resource |-> "r2"],
      [key |-> "K1", resource |-> "r2"] }

SecretLists == UNION { [1..n -> SecretEntries] : n \in 0..MaxSecrets }

\* one element of functionProps.variables: an object, as the list of its
\* [key, value] entries in insertion order
VariableObjects ==
    { << [key |-> "K1", value |-> "v1"] >>,
      << [key |-> "K1", value |-> "v2"], [key |-> "K3", value |-> "v1"] >>,
      << [key |-> "NODE_OPTIONS", value |-> "v2"] >> }

VariableLists == UNION { [1..n -> VariableObjects] : n \in 0..MaxVariables }

DomainValues == { <<>>, <<"example", "com">>, <<"api", "example", "com">> }

\* entry "direct": the caller hands its props to new FunctionStack as they
\* are; entry "part_000": the script of part_000 maps the context metadata
\* first; entry "bin": the script of src/bin/app.ts hands the metadata on
Variants ==
    { [stack |-> "main", fn |-> "A",   entry |-> "direct"],
      [stack |-> "main", fn |-> "B",   entry |-> "direct"],
      [stack |-> "p3",   fn |-> "A",   entry |-> "direct"],
      [stack |-> "p3",   fn |-> "B",   entry |-> "direct"],
      [stack |-> "p5",   fn |-> "A",   entry |-> "direct"],
      [stack |-> "p5",   fn |-> "B",   entry |-> "direct"],
      [stack |-> "p4",   fn |-> "old", entry |-> "direct"],
      [stack |-> "main", fn |-> "B",   entry |-> "part_000"],
      [stack |-> "main", fn |-> "B",   entry |-> "bin"] }

\* a complete minimal configuration: env, identity, nothing optional
BaseConfig ==
    [ props                  |-> "env",
      application            |-> IdString(AppAlphabet, 2),
      service                |-> IdString(SvcAlphabet, 2),
      environment            |-> IdString(EnvAlphabet, 2),
      dockerFile             |-> Undef,
      provisionedConcurrency |-> NoNumber,
      reservedConcurrency    |-> NoNumber,
      runtime                |-> Unset,
      architecture           |-> Unset,
      memorySize             |-> NoNumber,
      timeout                |-> NoNumber,
      include                |-> <<>>,
      rootDirFiles           |-> {},
      url                    |-> Undef,
      keepWarm               |-> FALSE,
      variables              |-> <<>>,
      secrets                |-> <<>>,
      buildEnvironment       |-> <<>>,
      buildSecrets           |-> <<>>,
      domain                 |-> <<>>,
      regionalCertificateArn |-> Undef,
      hostedZoneId           |-> Undef,
      accessTokenSecretArn   |-> Undef,
      owner                  |-> Undef,
      repo                   |-> Undef,
      branchOrRef            |-> Undef,
      buildRuntime           |-> Undef,
      buildRuntimeVersion    |-> Undef,
      installcmd             |-> Undef,
      buildcmd               |-> Undef,
      eventTarget            |-> Undef ]

\* BaseConfig with a pipeline whose source and build fields are all given
PipelineConfig ==
    [ BaseConfig EXCEPT !.accessTokenSecretArn = "arn:token",
                        !.owner = "owner", !.repo = "repo", !.branchOrRef = "main",
                        !.buildRuntime = "python", !.buildRuntimeVersion = "3",
                        !.installcmd = "bun install", !.buildcmd = "bun run build" ]

\* props undefined, props the empty string, or props without env
ConfigsNoEnv == { [BaseConfig EXCEPT !.props = p] : p \in {"none", "empty", "noenv"} }

\* every combination of identity strings, with and without container and pipeline
ConfigsIdentity ==
    { [b EXCEPT !.application = IdString(AppAlphabet, la),
                !.service     = IdString(SvcAlphabet, ls),
                !.environment = IdString(EnvAlphabet, le),
                !.dockerFile  = d] :
        b \in {BaseConfig, PipelineConfig}, d \in {Undef, "Dockerfile"},
        la \in IdLens, ls \in IdLens, le \in IdLens }

\* the function's own settings
ConfigsFunction ==
    { [b EXCEPT !.dockerFile = d, !.provisionedConcurrency = p, !.url = u,
                !.keepWarm = k, !.secrets = s] :
        b \in {BaseConfig, PipelineConfig}, d \in {Undef, "", "Dockerfile"},
        p \in {NoNumber, 0, 1}, u \in {Undef, "true", "false"}, k \in BOOLEAN,
        s \in SecretLists }

\* the function's runtime, architecture, memory and timeout
ConfigsSizing ==
    { [BaseConfig EXCEPT !.dockerFile = d, !.runtime = rt, !.architecture = a,
                         !.memorySize = m, !.timeout = t] :
        d \in {Undef, "Dockerfile"}, rt \in {Unset, NODEJS_18_X, PROVIDED_AL2023},
        a \in {Unset, ARM_64, X86_64}, m \in {NoNumber, 0, 512},
        t \in {NoNumber, 0, 30} }

\* runtime and architecture as context metadata carries them: strings
RuntimeStrings ==
    { <<>>,
      <<"n", "o", "d", "e", "j", "s", "2", "0", ".", "x">>,
      <<"N", "o", "d", "e", "J", "S", "1", "8", ".", "x">>,
      <<"n", "o", "d", "e", "j", "s", "2", "2", ".", "x">>,
      <<"p", "y", "t", "h", "o", "n", "3", ".", "1", "2">>,
      <<"P", "r", "o", "v", "i", "d", "e", "d">> }

ArchitectureStrings ==
    { <<>>, <<"a", "r", "m">>, <<"A", "R", "M", "6", "4">>, <<"x", "8", "6">>,
      <<"x", "8", "6", "_", "6", "4">>, <<"x", "6", "4">>,
      <<"r", "i", "s", "c", "v", "6", "4">> }

ConfigsContext ==
    { [BaseConfig EXCEPT !.dockerFile = d, !.runtime = rt, !.architecture = a] :
        d \in {Undef, "Dockerfile"},
        rt \in {Unset, NODEJS_18_X} \cup { StringValue(n) : n \in RuntimeStrings },
        a \in {Unset, X86_64} \cup { StringValue(n) : n \in ArchitectureStrings } }

\* functionProps.include, and the paths that exist under the root directory
IncludePaths == {"package.json", "handler.js"}
IncludeLists == UNION { [1..n -> IncludePaths] : n \in 0..MaxInclude }

ConfigsInclude ==
    { [BaseConfig EXCEPT !.dockerFile = d, !.include = inc, !.rootDirFiles = fs] :
        d \in {Undef, "Dockerfile"}, inc \in IncludeLists, fs \in SUBSET IncludePaths }

\* the domain settings
ConfigsDomain ==
    { [b EXCEPT !.dockerFile = d, !.domain = dom, !.regionalCertificateArn = cert,
                !.hostedZoneId = zone, !.url = u] :
        b \in {BaseConfig, PipelineConfig}, d \in {Undef, "Dockerfile"},
        dom \in DomainValues, cert \in {Undef, "arn:cert"}, zone \in {Undef, "Z1"},
        u \in {Undef, "true", "false"} }

\* the pipeline settings
ConfigsPipeline ==
    { [BaseConfig EXCEPT !.accessTokenSecretArn = t, !.dockerFile = d,
                !.owner = o, !.repo = r, !.branchOrRef = br,
                !.buildRuntime = rt, !.buildRuntimeVersion = rv,
                !.installcmd = ic, !.buildcmd = bc, !.eventTarget = ev] :
        t \in {"arn:token"}, d \in {Undef, "Dockerfile"},
        o \in {Undef, "owner"}, r \in {Undef, "repo"}, br \in {Undef, "main"},
        rt \in {Undef, "python"}, rv \in {Undef, "3"},
        ic \in {Undef, "bun install"}, bc \in {Undef, "bun run build"},
        ev \in {Undef, "arn:bus"} }

\* a complete pipeline configuration whose token is the empty string
ConfigsEmptyToken ==
    { [PipelineConfig EXCEPT !.accessTokenSecretArn = "", !.dockerFile = d,
                             !.eventTarget = ev] :
        d \in {Undef, "Dockerfile"}, ev \in {Undef, "arn:bus"} }

\* identities in lower case, short and with one long part
LowerAlphabet == <<"b", "e", "h">>

ConfigsLowerCase ==
    { [b EXCEPT !.application = IdString(LowerAlphabet, la),
                !.service     = IdString(LowerAlphabet, 2),
                !.environment = IdString(LowerAlphabet, 2)] :
        b \in {BaseConfig, PipelineConfig}, la \in {2, 8} }

\* functionProps.variables next to functionProps.secrets, keys shared or not
ConfigsVariables ==
    { [BaseConfig EXCEPT !.dockerFile = d, !.variables = vs, !.secrets = ss] :
        d \in {Undef, "Dockerfile"}, vs \in VariableLists,
        ss \in { l \in SecretLists : Len(l) <= 1 } }

\* one element of buildProps.environment, as the list of its entries
BuildObjects ==
    { << [key |-> "K1", value |-> "v1"] >>,
      << [key |-> "K1", value |-> "v2"], [key |-> "K2", value |-> "v1"] >>,
      << [key |-> "ECR_REPO", value |-> "v2"] >> }

BuildObjectLists == UNION { [1..n -> BuildObjects] : n \in 0..MaxVariables }

\* the elements of buildProps.secrets
BuildSecretEntries ==
    { [key |-> "K1", resource |-> "r1"],
      [key |-> "K2", resource |-> "r2"],
      [key |-> "ECR_REPO", resource |-> "r2"] }

\* buildProps.environment and buildProps.secrets of a complete pipeline
\* configuration; a list that is not given behaves as the empty list
ConfigsBuildEnvironment ==
    { [PipelineConfig EXCEPT !.dockerFile = d, !.buildEnvironment = es,
                             !.buildSecrets = ss] :
        d \in {Undef, "Dockerfile"}, es \in BuildObjectLists,
        ss \in UNION { [1..n -> BuildSecretEntries] : n \in 0..1 } }

\* functionProps.reservedConcurrency: unset, 0 and a positive number
ConfigsReserved ==
    { [BaseConfig EXCEPT !.dockerFile = d, !.reservedConcurrency = rc] :
        d \in {Undef, "Dockerfile"}, rc \in {NoNumber, 0, 5} }

\* a complete pipeline configuration that follows another branch
ConfigsBranch ==
    { [PipelineConfig EXCEPT !.branchOrRef = "dev", !.dockerFile = d, !.eventTarget = ev] :
        d \in {Undef, "Dockerfile"}, ev \in {Undef, "arn:bus"} }

Configs ==
    ConfigsNoEnv \cup ConfigsIdentity \cup ConfigsFunction \cup ConfigsDomain
    \cup ConfigsPipeline \cup ConfigsEmptyToken \cup ConfigsSizing
    \cup ConfigsContext \cup ConfigsInclude \cup ConfigsBranch \cup ConfigsReserved
    \cup ConfigsLowerCase \cup ConfigsVariables \cup ConfigsBuildEnvironment

\* part_004 copies only the fields of part_001's FunctionsProps; its props type
\* (part_006, second interface) has no dockerFile, keepWarm or pipeline field
TypedFor(v, c) ==
    v.stack = "p4" =>
        /\ c.dockerFile = Undef
        /\ c.keepWarm = FALSE
        /\ c.accessTokenSecretArn = Undef
        /\ c.eventTarget = Undef
        /\ c.include = <<>>

----------------------------------------------------------------------------
(* Errors *)

ErrEnv      == "Must provide AWS account and region."
ErrIdentity == "Mandatory stack properties missing."
ErrSource   == "Missing sourceProps: Github owner, repo and branch/ref required."
ErrBuild    == "Missing buildProps: runtime, runtime_version, installcmd, buildcmd and outputdir required when pipeline is enabled."
\* constructs.Node.addChild, on a second child with the same id in one scope
ErrDuplicateId == "There is already a Construct with name"
\* part_000: if (!rawMetadata) throw
ErrContext == "Context metadata missing!"

ValidationErrors == {ErrEnv, ErrIdentity, ErrSource, ErrBuild}

----------------------------------------------------------------------------
(* Resources *)

Res(scope, id, kind) == [scope |-> scope, id |-> id, kind |-> kind]

FnScope       == "Functions"
StackScope    == "Stack"
PipelineScope == "Pipeline"
EventsScope   == "PipelineEvents"

OfKind(rs, kinds) == { i \in 1..Len(rs) : rs[i].kind \in kinds }
Count(rs, kinds) == Cardinality(OfKind(rs, kinds))

FunctionKinds == {"packageFunction", "containerFunction"}
GatewayKinds  == {"httpApi", "restApi"}
DnsKinds      == {"aRecord", "aaaaRecord"}
DomainKinds   == {"domainName", "apiMapping", "aRecord", "aaaaRecord",
                  "certificateImport", "hostedZoneImport"}
PipelineKinds == {"bucket", "pipelineProject", "pipeline", "pipelineRepository",
                  "pipelineOutput"}

\* constructs.Node.addChild: is the id already taken in the scope?
IdTaken(rs, scope, id) ==
    \E i \in 1..Len(rs) : rs[i].scope = scope /\ rs[i].id = id

\* Function.addEnvironment(key, value)
AddEnvironment(e, key, value) ==
    [k \in DOMAIN e \cup {key} |-> IF k = key THEN value ELSE e[k]]

UnsetPrefix == [stack |-> <<>>, fn |-> <<>>, pipeline |-> <<>>]
NoBuildSpec == [runtime |-> Undef, runtime_version |-> Undef,
                installcmd |-> Undef, buildcmd |-> Undef]

----------------------------------------------------------------------------
(* The order of the statements of the constructors *)

\* the bug of declaring the ECR repository before the identity check
StackPrologue_RepositoryFirst(v) ==
    IF v.stack = "main"
    THEN <<"stackCheckEnv", "stackRepository", "stackCheckIdentity">>
    ELSE <<"stackCheckEnv", "stackCheckIdentity">>

\* the entry script up to the body of the FunctionStack constructor
EntrySteps(v) ==
    CASE v.entry = "part_000" -> <<"entryCheck", "entryMap", "entryNewStack">>
      [] v.entry = "bin"      -> <<"entryCheck", "entryNewStack">>
      [] OTHER                -> <<>>

\* the entry script after new FunctionStack(...) has returned: app.synth()
EntryEpilogue(v) == IF v.entry = "direct" THEN <<>> ELSE <<"entrySynth">>

\* FunctionStack.constructor up to new FunctionsConstruct(...)
StackPrologue(v) ==
    IF v.stack = "main"
    THEN <<"stackCheckEnv", "stackCheckIdentity", "stackRepository">>
    ELSE <<"stackCheckEnv", "stackCheckIdentity">>

\* FunctionsConstruct.constructor
FunctionsSteps(fn) ==
    IF fn = "old"
    THEN <<"fnPrefix", "fnCreateFunction", "fnAlias", "fnSecrets",
           "fnUrl", "fnDns", "fnOutput">>
    ELSE <<"fnPrefix", "fnCreateFunction", "fnAlias", "fnVariables", "fnSecrets",
           "fnDomainName", "fnApiGateway", "fnUrl", "fnDns", "fnPingRule",
           "fnOutput">>

\* FunctionStack.constructor after new FunctionsConstruct(...): part_004 ends
\* there, only part_005 checks buildProps, part_005 has no EventsConstruct
StackEpilogue(v) ==
    CASE v.stack = "p4" -> <<>>
      [] v.stack = "p5" -> <<"stackPipelineGate", "stackCheckSource",
                             "stackCheckBuild", "pipeline">>
      [] OTHER          -> <<"stackPipelineGate", "stackCheckSource",
                             "pipeline", "stackEvents">>

AllSteps(v) ==
    EntrySteps(v) \o StackPrologue(v) \o FunctionsSteps(v.fn) \o StackEpilogue(v)
    \o EntryEpilogue(v)

\* the place of a step in the run of revision v, 0 when it has none
StepIndex(v, step) ==
    LET steps == AllSteps(v)
    IN IF \E j \in 1..Len(steps) : steps[j] = step
       THEN CHOOSE j \in 1..Len(steps) : steps[j] = step
       ELSE 0

\* the statement that follows a step; the constructor returns after the last
StepAfter(v, step) ==
    LET steps == AllSteps(v)
        i == StepIndex(v, step)
    IN IF i = Len(steps) THEN "done" ELSE steps[i + 1]

----------------------------------------------------------------------------
(* The entry point of part_000 *)

Chars_provided == <<"p", "r", "o", "v", "i", "d", "e", "d">>
Chars_nodejs   == <<"n", "o", "d", "e", "j", "s">>

\* mapRuntime: [value, warn]; value Unset stands for the returned undefined
mapRuntime(rt) ==
    IF ~TruthyValue(rt) THEN [value |-> Unset, warn |-> FALSE]
    ELSE IF rt.tag = "Runtime" THEN [value |-> rt, warn |-> FALSE]
    ELSE LET s == ToLowerCase(rt.name)
         IN IF s = Chars_provided THEN [value |-> PROVIDED_AL2023, warn |-> FALSE]
            ELSE IF StartsWith(s, Chars_nodejs) /\ Includes(s, <<"2", "0">>)
                 THEN [value |-> NODEJS_20_X, warn |-> FALSE]
            ELSE IF StartsWith(s, Chars_nodejs) /\ Includes(s, <<"1", "8">>)
                 THEN [value |-> NODEJS_18_X, warn |-> FALSE]
            ELSE [value |-> Unset, warn |-> TRUE]

\* mapArch
mapArch(a) ==
    IF ~TruthyValue(a) THEN [value |-> Unset, warn |-> FALSE]
    ELSE IF a.tag = "Architecture" THEN [value |-> a, warn |-> FALSE]
    ELSE LET s == ToLowerCase(a.name)
         IN IF s \in { <<"a", "r", "m">>, <<"a", "r", "m", "6", "4">> }
            THEN [value |-> ARM_64, warn |-> FALSE]
            ELSE IF s \in { <<"x", "8", "6">>, <<"x", "8", "6", "_", "6", "4">>,
                            <<"x", "6", "4">> }
                 THEN [value |-> X86_64, warn |-> FALSE]
            ELSE [value |-> Unset, warn |-> TRUE]

\* {...raw, ...(mapped && {key: mapped})}: the raw entry stays unless the
\* mapped value is truthy
SpreadMapped(raw, mapped) == IF TruthyValue(mapped) THEN mapped ELSE raw

\* metadata.functionProps of part_000
MappedFunctionProps(raw) ==
    [runtime      |-> SpreadMapped(raw.runtime, mapRuntime(raw.runtime).value),
     architecture |-> SpreadMapped(raw.architecture, mapArch(raw.architecture).value)]

\* the console.warn calls of mapRuntime and mapArch, in call order
MappingWarnings(raw) ==
    (IF mapRuntime(raw.runtime).warn
     THEN << [about |-> "runtime", text |-> raw.runtime.name] >> ELSE <<>>)
    \o (IF mapArch(raw.architecture).warn
        THEN << [about |-> "architecture", text |-> raw.architecture.name] >> ELSE <<>>)

----------------------------------------------------------------------------
(* The decisions of the constructors *)

\* FunctionStack: if (!props?.env)
EnvMissing(c) == c.props # "env"

\* a check that also rejects a domain given without certificate or hosted zone
IdentityMissing_OrPartialDomain(c) ==
    \/ ~TruthySeq(c.application)
    \/ ~TruthySeq(c.environment)
    \/ ~TruthySeq(c.service)
    \/ /\ TruthySeq(c.domain)
       /\ ~(Truthy(c.regionalCertificateArn) /\ Truthy(c.hostedZoneId))

\* the bug of leaving service out of the identity check
IdentityMissing_NoService(c) ==
    ~TruthySeq(c.application) \/ ~TruthySeq(c.environment)

\* FunctionStack: if (!props.application || !props.environment || !props.service)
IdentityMissing(c) ==
    \/ ~TruthySeq(c.application)
    \/ ~TruthySeq(c.environment)
    \/ ~TruthySeq(c.service)

\* the bug "dockerFile !== undefined": an empty path selects the container function
IsContainerLambda_EmptyPath(fn, c) == fn # "old" /\ c.dockerFile # Undef

\* FunctionsConstruct: props.functionProps?.dockerFile ? container : package;
\* part_001 has the package function only
IsContainerLambda(fn, c) == fn # "old" /\ Truthy(c.dockerFile)

\* the bug of skipping the alias for 0 in every revision
AliasEnabled_Positive(fn, c) ==
    c.provisionedConcurrency # NoNumber /\ c.provisionedConcurrency > 0

\* provisioned concurrency: !== undefined (A, old); && > 0 (B)
AliasEnabled(fn, c) ==
    IF fn = "B"
    THEN c.provisionedConcurrency # NoNumber /\ c.provisionedConcurrency > 0
    ELSE c.provisionedConcurrency # NoNumber

\* the bug of binding the domain without testing the certificate
DomainNameEnabled_NoCertificate(c) == TruthySeq(c.domain)

\* if (props.domain && props.regionalCertificateArn)
DomainNameEnabled(c) == TruthySeq(c.domain) /\ Truthy(c.regionalCertificateArn)

\* the bug of creating the records without testing the hosted zone
DnsEnabled_NoHostedZone(c) == TruthySeq(c.domain) /\ Truthy(c.regionalCertificateArn)

\* if (props.domain && props.regionalCertificateArn && props.hostedZoneId)
DnsEnabled(c) ==
    TruthySeq(c.domain) /\ Truthy(c.regionalCertificateArn) /\ Truthy(c.hostedZoneId)

\* url === true (A, B); url !== false (old)
UrlEnabled(fn, c) == IF fn = "old" THEN c.url # "false" ELSE c.url = "true"

\* the bug "accessTokenSecretArn !== undefined": an empty token enables the pipeline
PipelineEnabled_EmptyToken(c) == c.accessTokenSecretArn # Undef

\* if (props?.accessTokenSecretArn)
PipelineEnabled(c) == Truthy(c.accessTokenSecretArn)

\* the bug of leaving branchOrRef out of the sourceProps check
SourcePropsMissing_NoBranch(c) == ~Truthy(c.owner) \/ ~Truthy(c.repo)

\* if (!sourceProps?.owner || !sourceProps?.repo || !sourceProps?.branchOrRef)
SourcePropsMissing(c) ==
    ~Truthy(c.owner) \/ ~Truthy(c.repo) \/ ~Truthy(c.branchOrRef)

\* part_005: if (!runtime || !runtime_version || !installcmd || !buildcmd)
BuildPropsMissing(c) ==
    \/ ~Truthy(c.buildRuntime)
    \/ ~Truthy(c.buildRuntimeVersion)
    \/ ~Truthy(c.installcmd)
    \/ ~Truthy(c.buildcmd)

\* the bug "dockerFile !== undefined" in the pipeline's branch
IsContainerPipeline_Defined(c) == c.dockerFile # Undef

\* PipelineConstruct: if (props.functionProps?.dockerFile)
IsContainerPipeline(c) == Truthy(c.dockerFile)

\* x || d
OrDefault(x, d) == IF Truthy(x) THEN x ELSE d

\* createCodeBuild: the buildspec's runtime, version, install and build commands
CodeBuildSpec(c) ==
    [runtime         |-> OrDefault(c.buildRuntime, "nodejs"),
     runtime_version |-> OrDefault(c.buildRuntimeVersion, "20"),
     installcmd      |-> OrDefault(c.installcmd, "npm install"),
     buildcmd        |-> OrDefault(c.buildcmd, "npm run build")]

----------------------------------------------------------------------------
(* What each method declares *)

\* createLambdaFunction: revision B declares the log group first
createLambdaFunction(fn) ==
    (IF fn = "B" THEN <<Res(FnScope, <<"FunctionLogGroup">>, "logGroup")>> ELSE <<>>)
    \o <<Res(FnScope, <<"Function">>, "packageFunction")>>

createContainerLambdaFunction(fn) ==
    (IF fn = "B" THEN <<Res(FnScope, <<"ContainerFunctionLogGroup">>, "logGroup")>>
                 ELSE <<>>)
    \o <<Res(FnScope, <<"ContainerFunction">>, "containerFunction")>>

\* includeFilesAndDirectories: each listed path that exists under rootDir is
\* copied to the same relative path under codeDir; the others are passed over
includeFilesAndDirectories(includes, existing, copied) ==
    copied \cup { includes[i] : i \in { j \in 1..Len(includes) : includes[j] \in existing } }

\* the paths under codeDir once this.lambdaFunction is assigned: only
\* createLambdaFunction of functions.ts reads functionProps.include, and only
\* when the list is not empty
CopiedIncludes(fn, c, copied) ==
    IF fn # "old" /\ ~IsContainerLambda(fn, c) /\ Len(c.include) > 0
    THEN includeFilesAndDirectories(c.include, c.rootDirFiles, copied)
    ELSE copied

\* this.lambdaFunction before the constructor assigns it
NoFunction ==
    [kind |-> "none", runtime |-> Unset, architecture |-> Unset,
     memorySize |-> NoNumber, timeout |-> NoNumber,
     reservedConcurrentExecutions |-> NoNumber, logRetention |-> Undef]

\* x || d for a runtime or an architecture
ValueOrDefault(v, d) == IF TruthyValue(v) THEN v ELSE d

\* n || d, and n ? n : d, for an optional number: 0 is falsy
NumberOrDefault(n, d) == IF n = NoNumber \/ n = 0 THEN d ELSE n

\* the bug of treating 0 as unset in every revision
ReservedConcurrentExecutions_Positive(fn, c) ==
    IF c.reservedConcurrency > 0 THEN c.reservedConcurrency ELSE NoNumber

\* reservedConcurrentExecutions: revisions A and old hand the value on; revision B
\* writes reservedConcurrency && reservedConcurrency > 0 ? reservedConcurrency : undefined
ReservedConcurrentExecutions(fn, c) ==
    IF fn = "B"
    THEN (IF c.reservedConcurrency # NoNumber /\ c.reservedConcurrency # 0
             /\ c.reservedConcurrency > 0
          THEN c.reservedConcurrency ELSE NoNumber)
    ELSE c.reservedConcurrency

\* the bug of defaulting the architecture to X86_64
FunctionProperties_X86Default(fn, c, fp) ==
    [kind         |-> IF IsContainerLambda(fn, c) THEN "DockerImageFunction" ELSE "Function",
     runtime      |-> IF IsContainerLambda(fn, c) THEN Unset
                      ELSE ValueOrDefault(fp.runtime, NODEJS_20_X),
     architecture |-> ValueOrDefault(fp.architecture, X86_64),
     memorySize   |-> NumberOrDefault(c.memorySize, DefaultMemorySize),
     timeout      |-> NumberOrDefault(c.timeout, DefaultTimeout),
     reservedConcurrentExecutions |-> ReservedConcurrentExecutions(fn, c),
     logRetention |-> "ONE_MONTH"]

\* the properties new Function / new DockerImageFunction receive; the container
\* function is given no runtime; the log retention is logRetention: ONE_MONTH
\* (A, old) or the retention of the log group passed as logGroup (B)
FunctionProperties(fn, c, fp) ==
    [kind         |-> IF IsContainerLambda(fn, c) THEN "DockerImageFunction" ELSE "Function",
     runtime      |-> IF IsContainerLambda(fn, c) THEN Unset
                      ELSE ValueOrDefault(fp.runtime, NODEJS_20_X),
     architecture |-> ValueOrDefault(fp.architecture, ARM_64),
     memorySize   |-> NumberOrDefault(c.memorySize, DefaultMemorySize),
     timeout      |-> NumberOrDefault(c.timeout, DefaultTimeout),
     reservedConcurrentExecutions |-> ReservedConcurrentExecutions(fn, c),
     logRetention |-> "ONE_MONTH"]

NoAlias == [aliasName |-> Undef, version |-> Undef,
            provisionedConcurrentExecutions |-> NoNumber]

\* new Alias(this, 'LambdaAlias', {aliasName: 'live', version: currentVersion of
\* the function, provisionedConcurrentExecutions: provisionedConcurrency})
AliasProps(target, c) ==
    [aliasName |-> "live", version |-> <<target, "CurrentVersion">>,
     provisionedConcurrentExecutions |-> c.provisionedConcurrency]

\* lambdaFunction.currentVersion, then the alias
AliasResources(target) ==
    << Res("Functions/" \o target, <<"CurrentVersion">>, "version"),
       Res(FnScope, <<"LambdaAlias">>, "alias") >>

\* this.lambdaFunction = dockerFile ? createContainerLambdaFunction : createLambdaFunction
LambdaFunctionResources(fn, c) ==
    IF IsContainerLambda(fn, c)
    THEN createContainerLambdaFunction(fn)
    ELSE createLambdaFunction(fn)

\* the environment the function is created with
BuiltInEnvironment(fn) ==
    IF fn = "old"
    THEN [k \in {"NODE_OPTIONS"} |-> <<"literal", "--enable-source-maps">>]
    ELSE [k \in {"NODE_OPTIONS", "NITRO_PRESET"} |->
            IF k = "NODE_OPTIONS" THEN <<"literal", "--enable-source-maps">>
                                  ELSE <<"literal", "aws-lambda">>]

\* createContainerLambdaFunction: the two ECR statements, when a token is given
EcrStatements(fn, c) ==
    IF IsContainerLambda(fn, c) /\ Truthy(c.accessTokenSecretArn)
    THEN << [via |-> "addToRolePolicy", entry |-> 0, resource |-> "*",
             action |-> "ecr:GetAuthorizationToken"],
            [via |-> "addToRolePolicy", entry |-> 0, resource |-> "*",
             action |-> "ecr:pull"] >>
    ELSE <<>>

\* the id of the construct imported for an entry of the secrets list
SecretImportId(fn, key) ==
    IF fn = "old" THEN <<"EnvVar-", key>> ELSE <<"Secret-", key>>

\* the value addEnvironment receives for an entry
SecretEnvValue(fn, entry) ==
    IF fn = "old" THEN <<"parameter", entry.resource>>
                  ELSE <<"secret", entry.resource>>

\* the bug of keeping the value a key already has
addEnvironment_FirstWins(e, entry) ==
    IF entry.key \in DOMAIN e THEN e
    ELSE AddEnvironment(e, entry.key, <<"literal", entry.value>>)

\* this.lambdaFunction.addEnvironment(key, value) for one [key, value] entry
addEnvironment(e, entry) ==
    AddEnvironment(e, entry.key, <<"literal", entry.value>>)

\* Object.entries(envVar).forEach(([key, value]) => addEnvironment(key, value))
RECURSIVE AddEntries(_, _)
AddEntries(e, entries) ==
    IF entries = <<>> THEN e
    ELSE AddEntries(addEnvironment(e, Head(entries)), Tail(entries))

\* addEnvironmentVariables: envVars.forEach(envVar => ...)
RECURSIVE addEnvironmentVariables(_, _)
addEnvironmentVariables(e, envVars) ==
    IF envVars = <<>> THEN e
    ELSE addEnvironmentVariables(AddEntries(e, Head(envVars)), Tail(envVars))

\* the bug of granting read on every secret instead of the entry's
GrantRead_AnyResource(i, entry) ==
    [via |-> "grantRead", entry |-> i, resource |-> "*", action |-> "read"]

\* importedSecret.grantRead(this.lambdaFunction) for entry i
GrantRead(i, entry) ==
    [via |-> "grantRead", entry |-> i, resource |-> entry.resource, action |-> "read"]

\* part_001: one statement whose resources are the parameters of all entries
ParameterPolicy(secrets) ==
    [i \in 1..Len(secrets) |->
        [via |-> "addToRolePolicy", entry |-> i, resource |-> secrets[i].resource,
         action |-> "read"]]

\* the DomainName construct and the certificate it imports
DomainNameResources ==
    << Res(FnScope, <<"${resourceIdPrefix}", "-regional-certificate">>, "certificateImport"),
       Res(FnScope, <<"DomainName">>, "domainName") >>

\* the bug of declaring the gateway only when a domain name is bound
createApiGateway_OnlyWithDomain(hasDomainName) ==
    IF hasDomainName
    THEN << Res(FnScope, <<"API">>, "httpApi"),
            Res("Functions/API", <<"DefaultDomainMapping">>, "apiMapping"),
            Res("Functions/API", <<"GET/HEAD /{proxy+}">>, "httpRoute"),
            Res(FnScope, <<"ApiGatewayUrl">>, "gatewayOutput") >>
    ELSE <<>>

\* createApiGateway, and the ApiGatewayUrl output that follows it
createApiGateway(hasDomainName) ==
    << Res(FnScope, <<"API">>, "httpApi") >>
    \o (IF hasDomainName
        THEN << Res("Functions/API", <<"DefaultDomainMapping">>, "apiMapping") >>
        ELSE <<>>)
    \o << Res("Functions/API", <<"GET/HEAD /{proxy+}">>, "httpRoute"),
          Res(FnScope, <<"ApiGatewayUrl">>, "gatewayOutput") >>

\* addFunctionUrl and its output
FunctionUrlResources(fn) ==
    << Res(FnScope, <<"FunctionUrl">>, "functionUrl"),
       Res(FnScope, IF fn = "old" THEN <<"LambdaUrl">> ELSE <<"LambdaFunctionUrl">>,
           "functionUrlOutput") >>

\* createDnsRecords; part_001 also declares the gateway, the domain name and the output
createDnsRecords(fn) ==
    (IF fn = "old"
     THEN << Res(FnScope, <<"${resourceIdPrefix}", "-API">>, "restApi") >>
     ELSE <<>>)
    \o << Res(FnScope, <<"${resourceIdPrefix}", "-hosted-zone">>, "hostedZoneImport") >>
    \o (IF fn = "old"
        THEN << Res(FnScope, <<"${resourceIdPrefix}", "-Certificate">>, "certificateImport"),
                Res("Functions/API", <<"${resourceIdPrefix}", "-Domain">>, "domainName") >>
        ELSE <<>>)
    \o << Res(FnScope, <<"${resourceIdPrefix}", "-ipv4-record">>, "aRecord"),
          Res(FnScope, <<"${resourceIdPrefix}", "-ipv6-record">>, "aaaaRecord") >>
    \o (IF fn = "old"
        THEN << Res(FnScope, <<"ApiGatewayUrl">>, "gatewayOutput") >>
        ELSE <<>>)

\* new CfnOutput(this, id, {value, exportName: `${this.resourceIdPrefix}-${name}`})
CfnOutput(id, prefix, name, value) ==
    [id |-> id, exportName |-> [prefix |-> prefix, suffix |-> name], value |-> value]

\* the ApiGatewayUrl output of each revision
GatewayOutput(prefix) ==
    CfnOutput("ApiGatewayUrl", prefix, "-ApiGatewayUrl", "apiGateway.url")

\* the bug of declaring the function URL's output although no URL was added
UrlOutputs_Always(fn, c, prefix) ==
    << CfnOutput(IF fn = "old" THEN "LambdaUrl" ELSE "LambdaFunctionUrl", prefix,
                 "-LambdaFunctionUrl", "lambdaFunctionUrl.url") >>

\* the output declared inside the if that adds the function URL
UrlOutputs(fn, c, prefix) ==
    IF UrlEnabled(fn, c)
    THEN << CfnOutput(IF fn = "old" THEN "LambdaUrl" ELSE "LambdaFunctionUrl", prefix,
                      "-LambdaFunctionUrl", "lambdaFunctionUrl.url") >>
    ELSE <<>>

\* the output of the function's name, the constructor's last statement
FunctionOutput(fn, prefix) ==
    CfnOutput(IF fn = "old" THEN "Lambda" ELSE "LambdaFunction", prefix,
              "-LambdaFunction", "lambdaFunction.functionName")

\* the pipeline construct's output
PipelineOutput(c) ==
    CfnOutput("CodePipelineName", ResourceIdPrefix42(c), "-CodePipelineName",
              "codePipeline.pipelineName")

\* no gateway has been assigned to this.apiGateway / this.APIGateway
NoGateway ==
    [kind |-> "none", defaultIntegration |-> Undef, routes |-> {},
     defaultDomainMapping |-> FALSE]

\* the construct id of this.lambdaFunction among the declared constructs
LambdaFunctionId(rs) ==
    LET fs == OfKind(rs, FunctionKinds)
    IN IF fs = {} THEN Undef ELSE rs[CHOOSE i \in fs : TRUE].id[1]

\* the bug of leaving defaultIntegration out of the HttpApi's properties
HttpApiProps_NoDefaultIntegration(target, hasDomainName) ==
    [kind |-> "HttpApi", defaultIntegration |-> Undef,
     routes |-> {[path |-> "/{proxy+}", methods |-> {"GET", "HEAD"},
                  integration |-> target]},
     defaultDomainMapping |-> hasDomainName]

\* createApiGateway: new HttpApi(this, "API", {defaultIntegration, ...}) and
\* addRoutes({integration, path: '/{proxy+}', methods: [GET, HEAD]})
HttpApiProps(target, hasDomainName) ==
    [kind |-> "HttpApi", defaultIntegration |-> target,
     routes |-> {[path |-> "/{proxy+}", methods |-> {"GET", "HEAD"},
                  integration |-> target]},
     defaultDomainMapping |-> hasDomainName]

\* part_001 createDnsRecords: new LambdaRestApi(this, ..., {handler}) proxies
\* every path and method to the handler, then addDomainName
LambdaRestApiProps(target) ==
    [kind |-> "LambdaRestApi", defaultIntegration |-> target,
     routes |-> {[path |-> "/{proxy+}", methods |-> {"ANY"}, integration |-> target]},
     defaultDomainMapping |-> TRUE]

\* createDnsRecords: domainParts = props.domain.split('.') (the domain is held
\* as its labels); zoneName: domainParts[domainParts.length - 1]
ZoneName(domainParts) == << domainParts[Len(domainParts)] >>

\* createContainerPipeline
createContainerPipeline ==
    << Res(PipelineScope, <<"PipelineArtifactsBucket">>, "bucket"),
       Res(PipelineScope, <<"LambdaRepo">>, "pipelineRepository"),
       Res(PipelineScope, <<"DockerBuildProject">>, "pipelineProject"),
       Res(PipelineScope, <<"DockerDeployProject">>, "pipelineProject"),
       Res(PipelineScope, <<"DockerPipeline">>, "pipeline") >>

\* createCodeBuild, then createPipeline
createPackagePipeline ==
    << Res(PipelineScope, <<"LambdaBuildProject">>, "pipelineProject"),
       Res(PipelineScope, <<"PipelineArtifactsBucket">>, "bucket"),
       Res(PipelineScope, <<"LambdaDeployProject">>, "pipelineProject"),
       Res(PipelineScope, <<"LambdaPipeline">>, "pipeline") >>

\* a shell command of a buildspec: what it runs and whether "|| echo ..." follows
Command(run, orEcho) == [run |-> run, orEcho |-> orEcho]

\* a stage with its single action: the project it runs, its input and outputs
Stage(name, action, project, input, outs) ==
    [stageName |-> name, actionName |-> action, project |-> project,
     input |-> input, outputs |-> outs]

\* new GitHubSourceAction({owner, repo, branch, oauthToken, output, trigger})
GitHubSourceAction(c) ==
    [owner |-> c.owner, repo |-> c.repo, branch |-> c.branchOrRef,
     oauthToken |-> c.accessTokenSecretArn, trigger |-> "WEBHOOK"]

\* the buildspec of DockerBuildProject: pre_build, build, post_build, artifacts
DockerBuildSpec ==
    [commands |-> << Command("awsVersion", FALSE), Command("exportImageTag", FALSE),
                     Command("dockerLogin", FALSE), Command("dockerBuild", FALSE),
                     Command("dockerPush", FALSE), Command("exportImageUri", FALSE),
                     Command("writeImageUri", FALSE) >>,
     files |-> {"imageUri.txt"}]

\* the bug of updating the function before waiting for it
DockerDeploySpec_UpdateFirst ==
    [commands |-> << Command("echo", FALSE), Command("readImageUri", FALSE),
                     Command("echo", FALSE),
                     Command("updateFunctionCodeImage", FALSE),
                     Command("waitFunctionUpdated", TRUE),
                     Command("waitFunctionUpdated", FALSE),
                     Command("echoUpdated", FALSE) >>,
     files |-> {}]

\* the buildspec of DockerDeployProject: pre_build (3 commands), build (4)
DockerDeploySpec ==
    [commands |-> << Command("echo", FALSE), Command("readImageUri", FALSE),
                     Command("echo", FALSE),
                     Command("waitFunctionUpdated", TRUE),
                     Command("updateFunctionCodeImage", FALSE),
                     Command("waitFunctionUpdated", FALSE),
                     Command("echoUpdated", FALSE) >>,
     files |-> {}]

\* createCodeBuild: install, build, then zip -r function.zip .
LambdaBuildSpec ==
    [commands |-> << Command("install", FALSE), Command("build", FALSE),
                     Command("zip", FALSE) >>,
     files |-> {"function.zip"}]

\* the buildspec of LambdaDeployProject
LambdaDeploySpec ==
    [commands |-> << Command("updateFunctionCodeZip", FALSE) >>, files |-> {}]

\* the source stage runs no project
NoCommands == [commands |-> <<>>, files |-> {}]

\* the bug of leaving the bucket open to public access
ArtifactBucketProps_Public(c) ==
    [bucketName        |-> [prefix |-> ResourceIdPrefix42(c), suffix |-> "-pipeline-artifacts"],
     encryption        |-> "S3_MANAGED",
     blockPublicAccess |-> "NONE",
     objectOwnership   |-> "OBJECT_WRITER",
     enforceSSL        |-> TRUE,
     removalPolicy     |-> "DESTROY",
     autoDeleteObjects |-> TRUE]

\* new Bucket(this, "PipelineArtifactsBucket", {...}), the same in both flows
ArtifactBucketProps(c) ==
    [bucketName        |-> [prefix |-> ResourceIdPrefix42(c), suffix |-> "-pipeline-artifacts"],
     encryption        |-> "S3_MANAGED",
     blockPublicAccess |-> "BLOCK_ALL",
     objectOwnership   |-> "OBJECT_WRITER",
     enforceSSL        |-> TRUE,
     removalPolicy     |-> "DESTROY",
     autoDeleteObjects |-> TRUE]

\* an object without a key
EmptyObject == [k \in {} |-> Undef]

\* {...a, ...b}: the keys of both, b's value where both have the key
Spread(a, b) ==
    [k \in DOMAIN a \cup DOMAIN b |-> IF k \in DOMAIN b THEN b[k] ELSE a[k]]

\* an object built from its entries, a later entry replacing an earlier one
RECURSIVE FromEntries(_, _)
FromEntries(o, entries) ==
    IF entries = <<>> THEN o
    ELSE FromEntries(Spread(o, [k \in {Head(entries).key} |-> Head(entries).value]),
                     Tail(entries))

\* Object.assign({}, ...buildProps.environment)
RECURSIVE ObjectAssign(_, _)
ObjectAssign(o, objects) ==
    IF objects = <<>> THEN o
    ELSE ObjectAssign(FromEntries(o, Head(objects)), Tail(objects))

\* [key, {value, type: PLAINTEXT}] for every entry of the merged environment
PlaintextVariables(c) ==
    [k \in DOMAIN ObjectAssign(EmptyObject, c.buildEnvironment) |->
        [value |-> ObjectAssign(EmptyObject, c.buildEnvironment)[k],
         type |-> "PLAINTEXT"]]

\* Object.fromEntries(secrets.map(({key, resource}) =>
\*     [key, {value: resource, type: PARAMETER_STORE}]))
ParameterStoreVariables(c) ==
    FromEntries(EmptyObject,
                [i \in 1..Len(c.buildSecrets) |->
                    [key |-> c.buildSecrets[i].key,
                     value |-> [value |-> c.buildSecrets[i].resource,
                                type |-> "PARAMETER_STORE"]]])

\* new Repository(this, "LambdaRepo", ...) and ecr.grantPullPush(dockerBuildProject)
LambdaRepo(c) ==
    [repositoryName |-> [prefix |-> ResourceIdPrefix42(c), suffix |-> "-repo"],
     repositoryUri  |-> "LambdaRepo.repositoryUri",
     grantPullPush  |-> "DockerBuildProject"]

\* the environment of DockerBuildProject with ECR_REPO written after the
\* user's entries
DockerBuildEnvironment_RepoLast(c) ==
    Spread(Spread(PlaintextVariables(c), ParameterStoreVariables(c)),
           [k \in {"ECR_REPO"} |->
               [value |-> LambdaRepo(c).repositoryUri, type |-> Undef]])

\* environmentVariables of DockerBuildProject: ECR_REPO, then the spread of
\* buildProps.environment, then the spread of buildProps.secrets
DockerBuildEnvironment(c) ==
    Spread(Spread([k \in {"ECR_REPO"} |->
                      [value |-> LambdaRepo(c).repositoryUri, type |-> Undef]],
                  PlaintextVariables(c)),
           ParameterStoreVariables(c))

\* createCodeBuild: buildEnvironmentVariables
PackageBuildEnvironment(c) ==
    Spread(PlaintextVariables(c), ParameterStoreVariables(c))

NoPipeline == [name |-> Undef, source |-> Undef, stages |-> <<>>, buildSpecs |-> <<>>,
               artifactBucket |-> Undef, repository |-> Undef,
               environmentVariables |-> EmptyObject]

\* the bug of feeding the deploy action the source artifact
ContainerPipelineProps_DeploySource(c) ==
    [name   |-> "DockerPipeline",
     source |-> GitHubSourceAction(c),
     stages |-> << Stage("Source", "GithubSourceAction", Undef, Undef, <<"SourceOutput">>),
                   Stage("Build", "BuildAction", "DockerBuildProject", "SourceOutput",
                         <<"DockerBuildOutput">>),
                   Stage("Deploy", "DeployAction", "DockerDeployProject",
                         "SourceOutput", <<>>) >>,
     buildSpecs |-> << NoCommands, DockerBuildSpec, DockerDeploySpec >>,
     artifactBucket |-> ArtifactBucketProps(c),
     repository |-> LambdaRepo(c),
     environmentVariables |-> DockerBuildEnvironment(c)]

\* createContainerPipeline: new Pipeline(this, "DockerPipeline", {stages})
ContainerPipelineProps(c) ==
    [name   |-> "DockerPipeline",
     source |-> GitHubSourceAction(c),
     stages |-> << Stage("Source", "GithubSourceAction", Undef, Undef, <<"SourceOutput">>),
                   Stage("Build", "BuildAction", "DockerBuildProject", "SourceOutput",
                         <<"DockerBuildOutput">>),
                   Stage("Deploy", "DeployAction", "DockerDeployProject",
                         "DockerBuildOutput", <<>>) >>,
     buildSpecs |-> << NoCommands, DockerBuildSpec, DockerDeploySpec >>,
     artifactBucket |-> ArtifactBucketProps(c),
     repository |-> LambdaRepo(c),
     environmentVariables |-> DockerBuildEnvironment(c)]

\* createPipeline: new Pipeline(this, "LambdaPipeline", {stages})
PackagePipelineProps(c) ==
    [name   |-> "LambdaPipeline",
     source |-> GitHubSourceAction(c),
     stages |-> << Stage("Source", "GithubSourceAction", Undef, Undef, <<"SourceOutput">>),
                   Stage("Build", "BuildAction", "LambdaBuildProject", "SourceOutput",
                         <<"BuildOutput">>),
                   Stage("Deploy", "DeployAction", "LambdaDeployProject",
                         "BuildOutput", <<>>) >>,
     buildSpecs |-> << NoCommands, LambdaBuildSpec, LambdaDeploySpec >>,
     artifactBucket |-> ArtifactBucketProps(c),
     repository |-> Undef,
     environmentVariables |-> PackageBuildEnvironment(c)]

\* this.codePipeline
PipelineProps(c) ==
    IF IsContainerPipeline(c) THEN ContainerPipelineProps(c) ELSE PackagePipelineProps(c)

\* the PipelineConstruct constructor
PipelineResources(c) ==
    (IF IsContainerPipeline(c) THEN createContainerPipeline ELSE createPackagePipeline)
    \o << Res(PipelineScope, <<"CodePipelineName">>, "pipelineOutput") >>

----------------------------------------------------------------------------
(* sanitizePath *)

\* a letter, a slash and a character outside the set revision B keeps
PathAlphabet == {"a", "/", ":"}

\* [^a-zA-Z0-9._\-@#$%^&*+=~ /]: the characters the first replace of revision B drops
Disallowed(ch) == ch = ":"

RECURSIVE SeqsUpTo(_, _)
\* the strings over alphabet of length at most n
SeqsUpTo(alphabet, n) ==
    IF n = 0 THEN { <<>> }
    ELSE LET shorter == SeqsUpTo(alphabet, n - 1)
         IN  shorter \cup { Append(t, ch) : t \in { u \in shorter : Len(u) = n - 1 },
                                            ch \in alphabet }

\* a value of type string | undefined
UndefinedPath == [defined |-> FALSE, chars |-> <<>>]
StringPath(chars) == [defined |-> TRUE, chars |-> chars]

PathInputs == {UndefinedPath} \cup { StringPath(t) : t \in SeqsUpTo(PathAlphabet, MaxPathLen) }

RECURSIVE DropLeadingSlashes(_)
DropLeadingSlashes(p) ==
    IF Len(p) > 0 /\ p[1] = "/" THEN DropLeadingSlashes(Tail(p)) ELSE p

RECURSIVE DropTrailingSlashes(_)
DropTrailingSlashes(p) ==
    IF Len(p) > 0 /\ p[Len(p)] = "/"
    THEN DropTrailingSlashes(SubSeq(p, 1, Len(p) - 1)) ELSE p

\* path.replace(/^\/+|\/+$/g, '')
StripSlashes(p) == DropTrailingSlashes(DropLeadingSlashes(p))

RECURSIVE ReplaceDisallowedAndRuns(_)
\* path.replace(/[^...]|\/+/g, m => m.includes('/') ? '/' : ''): one pass from
\* the left; a character outside the set is dropped, a run of slashes becomes '/'
ReplaceDisallowedAndRuns(p) ==
    IF Len(p) = 0 THEN <<>>
    ELSE IF p[1] = "/" THEN <<"/">> \o ReplaceDisallowedAndRuns(DropLeadingSlashes(p))
    ELSE IF Disallowed(p[1]) THEN ReplaceDisallowedAndRuns(Tail(p))
    ELSE <<p[1]>> \o ReplaceDisallowedAndRuns(Tail(p))

\* the fix of collapsing the slashes after the other characters are dropped
sanitizePath_CollapseLast(fn, p) ==
    IF ~p.defined \/ p.chars = <<>> THEN <<>>
    ELSE IF fn = "B"
    THEN StripSlashes(ReplaceDisallowedAndRuns(ReplaceDisallowedAndRuns(p.chars)))
    ELSE StripSlashes(p.chars)

\* the bug of stripping the leading slashes only
sanitizePath_LeadingOnly(fn, p) ==
    IF ~p.defined \/ p.chars = <<>> THEN <<>>
    ELSE IF fn = "B" THEN DropLeadingSlashes(ReplaceDisallowedAndRuns(p.chars))
    ELSE DropLeadingSlashes(p.chars)

\* sanitizePath of the function construct of revision fn; part_004 has the
\* function of revision A
sanitizePath(fn, p) ==
    IF ~p.defined \/ p.chars = <<>> THEN <<>>
    ELSE IF fn = "B" THEN StripSlashes(ReplaceDisallowedAndRuns(p.chars))
    ELSE StripSlashes(p.chars)

\* no path has been handed to sanitizePath
NoPath == [input |-> UndefinedPath, once |-> <<>>, twice |-> <<>>, applied |-> 0]

----------------------------------------------------------------------------
(* The deployed pipeline's state *)

\* pushes GitHub delivers in one run
MaxPushes == 3

\* the configured branch and another one of the same repository
Branches == {"main", "dev"}

NoArtifact == [execution |-> 0, name |-> Undef, stage |-> Undef, files |-> {}, revision |-> 0]

\* no build of the deploy project is running
NoRun == [execution |-> 0, next |-> 0, failed |-> FALSE, input |-> NoArtifact,
          imageUri |-> 0]

\* the function as the stack deployed it: revision 0 of the code, no update pending
DeployedFunction == [status |-> "Successful", code |-> 0, pending |-> 0]

----------------------------------------------------------------------------
(* The state machine *)

\* an App without a stack, not synthesized
NoApp == [stacks |-> <<>>, synthesized |-> FALSE]

\* the id the entry scripts give the stack
StackId(c) ==
    [application |-> c.application, service |-> c.service,
     environment |-> c.environment, suffix |-> "-stack"]

\* the bug of testing the metadata against undefined only
MetadataMissing_UndefinedOnly(c) == c.props = "none"

\* !metadata: undefined, or a falsy value such as the empty string
MetadataMissing(c) == c.props \in {"none", "empty"}

InitConstruct ==
    /\ variant \in Variants
    /\ cfg \in Configs
    /\ TypedFor(variant, cfg)
    /\ pc = AllSteps(variant)[1]
    /\ err = NoError
    /\ resources = <<>>
    /\ resourceIdPrefix = UnsetPrefix
    /\ lambdaEnv = <<>>
    /\ grants = <<>>
    /\ secretIdx = 1
    /\ domainName = FALSE
    /\ buildSpec = NoBuildSpec
    /\ apiGateway = NoGateway
    /\ hostedZone = <<>>
    /\ functionProps = [runtime |-> cfg.runtime, architecture |-> cfg.architecture]
    /\ lambdaFunction = NoFunction
    /\ alias = NoAlias
    /\ warnings = <<>>
    /\ codeDirFiles = {}
    /\ codePipeline = NoPipeline
    /\ commits = <<>>
    /\ executions = <<>>
    /\ artifacts = {}
    /\ deployRun = NoRun
    /\ lambdaUpdate = DeployedFunction
    /\ outputs = <<>>
    /\ pipelineEvents = NoPipeline
    /\ app = NoApp

Init ==
    /\ InitConstruct
    /\ sanitized = NoPath

\* throw new Error(e)
Throw(e) ==
    /\ err' = e
    /\ pc' = "failed"

\* const app = new App(); if (!metadata) throw new Error('Context metadata missing!')
EntryCheckMetadata ==
    /\ pc = "entryCheck"
    /\ IF MetadataMissing(cfg)
       THEN Throw(ErrContext)
       ELSE pc' = StepAfter(variant, "entryCheck") /\ err' = err
    /\ UNCHANGED <<variant, cfg, resources, resourceIdPrefix, lambdaEnv, grants,
                   secretIdx, domainName, buildSpec, apiGateway, hostedZone,
                   lambdaFunction, alias, codeDirFiles, codePipeline, commits, executions, artifacts, deployRun, lambdaUpdate, outputs, pipelineEvents, sanitized, functionProps, warnings, app>>

\* part_000: mapRuntime, mapArch and the metadata object
EntryMapMetadata ==
    /\ pc = "entryMap"
    /\ functionProps' = MappedFunctionProps(functionProps)
    /\ warnings' = warnings \o MappingWarnings(functionProps)
    /\ pc' = StepAfter(variant, "entryMap")
    /\ UNCHANGED <<variant, cfg, resources, resourceIdPrefix, lambdaEnv, grants,
                   secretIdx, domainName, buildSpec, apiGateway, hostedZone,
                   lambdaFunction, alias, codeDirFiles, codePipeline, commits, executions, artifacts, deployRun, lambdaUpdate, outputs, pipelineEvents, sanitized, err, app>>

\* new FunctionStack(app, `${application}-${service}-${environment}-stack`,
\* metadata): super(scope, id, props) puts the stack into the app
EntryNewStack ==
    /\ pc = "entryNewStack"
    /\ app' = [app EXCEPT !.stacks = Append(@, StackId(cfg))]
    /\ pc' = StepAfter(variant, "entryNewStack")
    /\ UNCHANGED <<variant, cfg, resources, resourceIdPrefix, lambdaEnv, grants,
                   secretIdx, domainName, buildSpec, apiGateway, hostedZone,
                   lambdaFunction, alias, codeDirFiles, codePipeline, commits, executions, artifacts, deployRun, lambdaUpdate, outputs, pipelineEvents, sanitized, err, functionProps, warnings>>

\* app.synth()
EntrySynth ==
    /\ pc = "entrySynth"
    /\ app' = [app EXCEPT !.synthesized = TRUE]
    /\ pc' = StepAfter(variant, "entrySynth")
    /\ UNCHANGED <<variant, cfg, resources, resourceIdPrefix, lambdaEnv, grants,
                   secretIdx, domainName, buildSpec, apiGateway, hostedZone,
                   lambdaFunction, alias, codeDirFiles, codePipeline, commits, executions, artifacts, deployRun, lambdaUpdate, outputs, pipelineEvents, sanitized, err, functionProps, warnings>>

\* FunctionStack.constructor: if (!props?.env) throw
StackCheckEnv ==
    /\ pc = "stackCheckEnv"
    /\ IF EnvMissing(cfg)
       THEN Throw(ErrEnv)
       ELSE pc' = StepAfter(variant, "stackCheckEnv") /\ err' = err
    /\ UNCHANGED <<variant, cfg, resources, resourceIdPrefix, lambdaEnv, grants,
                   secretIdx, domainName, buildSpec, apiGateway, hostedZone, functionProps, lambdaFunction, alias, warnings, codeDirFiles, codePipeline, commits, executions, artifacts, deployRun, lambdaUpdate, outputs, pipelineEvents, sanitized, app>>

\* FunctionStack.constructor: if (!application || !environment || !service) throw
StackCheckIdentity ==
    /\ pc = "stackCheckIdentity"
    /\ IF IdentityMissing(cfg)
       THEN Throw(ErrIdentity)
       ELSE pc' = StepAfter(variant, "stackCheckIdentity") /\ err' = err
    /\ UNCHANGED <<variant, cfg, resources, resourceIdPrefix, lambdaEnv, grants,
                   secretIdx, domainName, buildSpec, apiGateway, hostedZone, functionProps, lambdaFunction, alias, warnings, codeDirFiles, codePipeline, commits, executions, artifacts, deployRun, lambdaUpdate, outputs, pipelineEvents, sanitized, app>>

\* FunctionStack.ts: the stack's prefix and the ECR repository
StackRepository ==
    /\ pc = "stackRepository"
    /\ resourceIdPrefix' = [resourceIdPrefix EXCEPT !.stack = ResourceIdPrefix42(cfg)]
    /\ resources' = Append(resources, Res(StackScope, <<"Repository">>, "repository"))
    /\ pc' = StepAfter(variant, "stackRepository")
    /\ UNCHANGED <<variant, cfg, err, lambdaEnv, grants, secretIdx, domainName,
                   buildSpec, apiGateway, hostedZone, functionProps, lambdaFunction, alias, warnings, codeDirFiles, codePipeline, commits, executions, artifacts, deployRun, lambdaUpdate, outputs, pipelineEvents, sanitized, app>>

\* FunctionsConstruct.constructor: this.resourceIdPrefix = ...
FnPrefix ==
    /\ pc = "fnPrefix"
    /\ resourceIdPrefix' =
         [resourceIdPrefix EXCEPT !.fn = FunctionsResourceIdPrefix(variant.fn, cfg)]
    /\ pc' = StepAfter(variant, "fnPrefix")
    /\ UNCHANGED <<variant, cfg, err, resources, lambdaEnv, grants, secretIdx,
                   domainName, buildSpec, apiGateway, hostedZone, functionProps, lambdaFunction, alias, warnings, codeDirFiles, codePipeline, commits, executions, artifacts, deployRun, lambdaUpdate, outputs, pipelineEvents, sanitized, app>>

\* this.lambdaFunction = container or package function
FnCreateFunction ==
    /\ pc = "fnCreateFunction"
    /\ resources' = resources \o LambdaFunctionResources(variant.fn, cfg)
    /\ lambdaEnv' = BuiltInEnvironment(variant.fn)
    /\ grants' = grants \o EcrStatements(variant.fn, cfg)
    /\ lambdaFunction' = FunctionProperties(variant.fn, cfg, functionProps)
    /\ codeDirFiles' = CopiedIncludes(variant.fn, cfg, codeDirFiles)
    /\ pc' = StepAfter(variant, "fnCreateFunction")
    /\ UNCHANGED <<variant, cfg, err, resourceIdPrefix, secretIdx, domainName,
                   buildSpec, apiGateway, hostedZone, functionProps, alias, warnings, codePipeline, commits, executions, artifacts, deployRun, lambdaUpdate, outputs, pipelineEvents, sanitized, app>>

\* the version and the alias 'live'
FnAlias ==
    /\ pc = "fnAlias"
    /\ IF AliasEnabled(variant.fn, cfg)
       THEN /\ resources' = resources \o AliasResources(LambdaFunctionId(resources))
            /\ alias' = AliasProps(LambdaFunctionId(resources), cfg)
       ELSE UNCHANGED <<resources, alias>>
    /\ pc' = StepAfter(variant, "fnAlias")
    /\ UNCHANGED <<variant, cfg, err, resourceIdPrefix, lambdaEnv, grants, secretIdx,
                   domainName, buildSpec, apiGateway, hostedZone, functionProps,
                   lambdaFunction, warnings, codeDirFiles, codePipeline, commits, executions, artifacts, deployRun, lambdaUpdate, outputs, pipelineEvents, sanitized, app>>

\* if (variables && variables.length > 0) this.addEnvironmentVariables(variables)
FnAddVariables ==
    /\ pc = "fnVariables"
    /\ lambdaEnv' = IF Len(cfg.variables) > 0
                    THEN addEnvironmentVariables(lambdaEnv, cfg.variables)
                    ELSE lambdaEnv
    /\ pc' = StepAfter(variant, "fnVariables")
    /\ UNCHANGED <<variant, cfg, err, resources, resourceIdPrefix, grants, secretIdx,
                   domainName, buildSpec, apiGateway, hostedZone, functionProps,
                   lambdaFunction, alias, warnings, codeDirFiles, codePipeline, commits, executions, artifacts, deployRun, lambdaUpdate, outputs, pipelineEvents, sanitized, app>>

\* one iteration of addSecrets (A, B) / of the environmentVariables loop (old)
FnAddSecret ==
    /\ pc = "fnSecrets"
    /\ secretIdx <= Len(cfg.secrets)
    /\ LET entry == cfg.secrets[secretIdx]
           id == SecretImportId(variant.fn, entry.key)
       IN IF IdTaken(resources, FnScope, id)
          THEN /\ Throw(ErrDuplicateId)
               /\ UNCHANGED <<resources, lambdaEnv, grants, secretIdx>>
          ELSE /\ resources' = Append(resources, Res(FnScope, id, "secretImport"))
               /\ lambdaEnv' = AddEnvironment(lambdaEnv, entry.key,
                                              SecretEnvValue(variant.fn, entry))
               /\ grants' = Append(grants, GrantRead(secretIdx, entry))
               /\ secretIdx' = secretIdx + 1
               /\ UNCHANGED <<pc, err>>
    /\ UNCHANGED <<variant, cfg, resourceIdPrefix, domainName, buildSpec, apiGateway, hostedZone, functionProps, lambdaFunction, alias, warnings, codeDirFiles, codePipeline, commits, executions, artifacts, deployRun, lambdaUpdate, outputs, pipelineEvents, sanitized, app>>

\* the end of the loop; part_001 then adds its policy statement
FnSecretsDone ==
    /\ pc = "fnSecrets"
    /\ secretIdx > Len(cfg.secrets)
    /\ grants' =
         IF variant.fn = "old" /\ Len(cfg.secrets) > 0
         THEN grants \o ParameterPolicy(cfg.secrets)
         ELSE grants
    /\ pc' = StepAfter(variant, "fnSecrets")
    /\ UNCHANGED <<variant, cfg, err, resources, resourceIdPrefix, lambdaEnv,
                   secretIdx, domainName, buildSpec, apiGateway, hostedZone, functionProps, lambdaFunction, alias, warnings, codeDirFiles, codePipeline, commits, executions, artifacts, deployRun, lambdaUpdate, outputs, pipelineEvents, sanitized, app>>

\* if (domain && regionalCertificateArn) this.domainName = new DomainName(...)
FnDomainName ==
    /\ pc = "fnDomainName"
    /\ IF DomainNameEnabled(cfg)
       THEN /\ resources' = resources \o DomainNameResources
            /\ domainName' = TRUE
       ELSE UNCHANGED <<resources, domainName>>
    /\ pc' = StepAfter(variant, "fnDomainName")
    /\ UNCHANGED <<variant, cfg, err, resourceIdPrefix, lambdaEnv, grants, secretIdx,
                   buildSpec, apiGateway, hostedZone, functionProps, lambdaFunction, alias, warnings, codeDirFiles, codePipeline, commits, executions, artifacts, deployRun, lambdaUpdate, outputs, pipelineEvents, sanitized, app>>

\* this.apiGateway = this.createApiGateway(props); new CfnOutput('ApiGatewayUrl')
FnApiGateway ==
    /\ pc = "fnApiGateway"
    /\ resources' = resources \o createApiGateway(domainName)
    /\ apiGateway' = HttpApiProps(LambdaFunctionId(resources), domainName)
    /\ pc' = StepAfter(variant, "fnApiGateway")
    /\ outputs' = Append(outputs, GatewayOutput(resourceIdPrefix.fn))
    /\ UNCHANGED <<variant, cfg, err, resourceIdPrefix, lambdaEnv, grants, secretIdx,
                   domainName, buildSpec, hostedZone, functionProps, lambdaFunction, alias, warnings, codeDirFiles, codePipeline, commits, executions, artifacts, deployRun, lambdaUpdate, pipelineEvents, sanitized, app>>

\* the function URL and its output
FnUrl ==
    /\ pc = "fnUrl"
    /\ resources' =
         IF UrlEnabled(variant.fn, cfg)
         THEN resources \o FunctionUrlResources(variant.fn)
         ELSE resources
    /\ pc' = StepAfter(variant, "fnUrl")
    /\ outputs' = outputs \o UrlOutputs(variant.fn, cfg, resourceIdPrefix.fn)
    /\ UNCHANGED <<variant, cfg, err, resourceIdPrefix, lambdaEnv, grants, secretIdx,
                   domainName, buildSpec, apiGateway, hostedZone, functionProps, lambdaFunction, alias, warnings, codeDirFiles, codePipeline, commits, executions, artifacts, deployRun, lambdaUpdate, pipelineEvents, sanitized, app>>

\* if (domain && regionalCertificateArn && hostedZoneId) this.createDnsRecords(props)
FnDns ==
    /\ pc = "fnDns"
    /\ resources' =
         IF DnsEnabled(cfg)
         THEN resources \o createDnsRecords(variant.fn)
         ELSE resources
    /\ apiGateway' =
         IF DnsEnabled(cfg) /\ variant.fn = "old"
         THEN LambdaRestApiProps(LambdaFunctionId(resources))
         ELSE apiGateway
    /\ hostedZone' = IF DnsEnabled(cfg) THEN ZoneName(cfg.domain) ELSE hostedZone
    /\ pc' = StepAfter(variant, "fnDns")
    /\ outputs' = IF DnsEnabled(cfg) /\ variant.fn = "old"
                   THEN Append(outputs, GatewayOutput(resourceIdPrefix.fn))
                   ELSE outputs
    /\ UNCHANGED <<variant, cfg, err, resourceIdPrefix, lambdaEnv, grants, secretIdx,
                   domainName, buildSpec, functionProps, lambdaFunction, alias, warnings, codeDirFiles, codePipeline, commits, executions, artifacts, deployRun, lambdaUpdate, pipelineEvents, sanitized, app>>

\* if (keepWarm) this.createPingRule(props)
FnPingRule ==
    /\ pc = "fnPingRule"
    /\ resources' =
         IF cfg.keepWarm
         THEN Append(resources, Res(FnScope, <<"PingRule">>, "rule"))
         ELSE resources
    /\ pc' = StepAfter(variant, "fnPingRule")
    /\ UNCHANGED <<variant, cfg, err, resourceIdPrefix, lambdaEnv, grants, secretIdx,
                   domainName, buildSpec, apiGateway, hostedZone, functionProps, lambdaFunction, alias, warnings, codeDirFiles, codePipeline, commits, executions, artifacts, deployRun, lambdaUpdate, outputs, pipelineEvents, sanitized, app>>

\* new CfnOutput('LambdaFunction'); the FunctionsConstruct constructor returns
FnOutput ==
    /\ pc = "fnOutput"
    /\ resources' =
         Append(resources,
                Res(FnScope, IF variant.fn = "old" THEN <<"Lambda">>
                                                  ELSE <<"LambdaFunction">>,
                    "functionOutput"))
    /\ pc' = StepAfter(variant, "fnOutput")
    /\ outputs' = Append(outputs, FunctionOutput(variant.fn, resourceIdPrefix.fn))
    /\ UNCHANGED <<variant, cfg, err, resourceIdPrefix, lambdaEnv, grants, secretIdx,
                   domainName, buildSpec, apiGateway, hostedZone, functionProps, lambdaFunction, alias, warnings, codeDirFiles, codePipeline, commits, executions, artifacts, deployRun, lambdaUpdate, pipelineEvents, sanitized, app>>

\* the bug of creating the forwarder whether or not a target is given
EventsEnabled_Always(c) == TRUE

\* if (props.eventTarget)
EventsEnabled(c) == Truthy(c.eventTarget)

\* FunctionStack.constructor: if (props?.accessTokenSecretArn)
StackPipelineGate ==
    /\ pc = "stackPipelineGate"
    /\ pc' = IF PipelineEnabled(cfg) THEN StepAfter(variant, "stackPipelineGate")
                                      ELSE "done"
    /\ UNCHANGED <<variant, cfg, err, resources, resourceIdPrefix, lambdaEnv, grants,
                   secretIdx, domainName, buildSpec, apiGateway, hostedZone, functionProps, lambdaFunction, alias, warnings, codeDirFiles, codePipeline, commits, executions, artifacts, deployRun, lambdaUpdate, outputs, pipelineEvents, sanitized, app>>

\* check for sourceProps
StackCheckSource ==
    /\ pc = "stackCheckSource"
    /\ IF SourcePropsMissing(cfg)
       THEN Throw(ErrSource)
       ELSE pc' = StepAfter(variant, "stackCheckSource") /\ err' = err
    /\ UNCHANGED <<variant, cfg, resources, resourceIdPrefix, lambdaEnv, grants,
                   secretIdx, domainName, buildSpec, apiGateway, hostedZone, functionProps, lambdaFunction, alias, warnings, codeDirFiles, codePipeline, commits, executions, artifacts, deployRun, lambdaUpdate, outputs, pipelineEvents, sanitized, app>>

\* part_005: check for buildProps
StackCheckBuild ==
    /\ pc = "stackCheckBuild"
    /\ IF BuildPropsMissing(cfg)
       THEN Throw(ErrBuild)
       ELSE pc' = StepAfter(variant, "stackCheckBuild") /\ err' = err
    /\ UNCHANGED <<variant, cfg, resources, resourceIdPrefix, lambdaEnv, grants,
                   secretIdx, domainName, buildSpec, apiGateway, hostedZone, functionProps, lambdaFunction, alias, warnings, codeDirFiles, codePipeline, commits, executions, artifacts, deployRun, lambdaUpdate, outputs, pipelineEvents, sanitized, app>>

\* new PipelineConstruct(this, 'Pipeline', ...)
PipelineConstructor ==
    /\ pc = "pipeline"
    /\ resourceIdPrefix' = [resourceIdPrefix EXCEPT !.pipeline = ResourceIdPrefix42(cfg)]
    /\ resources' = resources \o PipelineResources(cfg)
    /\ buildSpec' = IF IsContainerPipeline(cfg) THEN buildSpec ELSE CodeBuildSpec(cfg)
    /\ codePipeline' = PipelineProps(cfg)
    /\ pc' = StepAfter(variant, "pipeline")
    /\ outputs' = Append(outputs, PipelineOutput(cfg))
    /\ UNCHANGED <<variant, cfg, err, lambdaEnv, grants, secretIdx, domainName, apiGateway, hostedZone, functionProps, lambdaFunction, alias, warnings, codeDirFiles, commits, executions, artifacts, deployRun, lambdaUpdate, pipelineEvents, sanitized, app>>

\* if (props.eventTarget) new EventsConstruct(this, 'PipelineEvents', ...)
StackEvents ==
    /\ pc = "stackEvents"
    /\ resources' =
         IF EventsEnabled(cfg)
         THEN Append(resources, Res(StackScope, <<"PipelineEvents">>, "eventsConstruct"))
         ELSE resources
    /\ pipelineEvents' = IF EventsEnabled(cfg) THEN codePipeline ELSE pipelineEvents
    /\ pc' = StepAfter(variant, "stackEvents")
    /\ UNCHANGED <<variant, cfg, err, resourceIdPrefix, lambdaEnv, grants, secretIdx,
                   domainName, buildSpec, apiGateway, hostedZone, functionProps, lambdaFunction, alias, warnings, codeDirFiles, codePipeline, commits, executions, artifacts, deployRun, lambdaUpdate, outputs, sanitized, app>>

Next ==
    \/ EntryCheckMetadata
    \/ EntryMapMetadata
    \/ EntryNewStack
    \/ EntrySynth
    \/ StackCheckEnv
    \/ StackCheckIdentity
    \/ StackRepository
    \/ FnPrefix
    \/ FnCreateFunction
    \/ FnAlias
    \/ FnAddVariables
    \/ FnAddSecret
    \/ FnSecretsDone
    \/ FnDomainName
    \/ FnApiGateway
    \/ FnUrl
    \/ FnDns
    \/ FnPingRule
    \/ FnOutput
    \/ StackPipelineGate
    \/ StackCheckSource
    \/ StackCheckBuild
    \/ PipelineConstructor
    \/ StackEvents

Spec == Init /\ [][Next]_vars

----------------------------------------------------------------------------
(* sanitizePath applied to a path, and to its own result *)

constructVars == <<variant, cfg, pc, err, resources, resourceIdPrefix, lambdaEnv,
                   grants, secretIdx, domainName, buildSpec, apiGateway, hostedZone,
                   functionProps, lambdaFunction, alias, warnings, codeDirFiles,
                   codePipeline, outputs, pipelineEvents, app>>

pipelineVars == <<commits, executions, artifacts, deployRun, lambdaUpdate>>

\* this.rootDir = sanitizePath(props?.rootDir)
SanitizeRootDir ==
    /\ sanitized.applied = 0
    /\ sanitized' = [sanitized EXCEPT !.once = sanitizePath(variant.fn, sanitized.input),
                                      !.applied = 1]
    /\ UNCHANGED <<constructVars, pipelineVars>>

\* the result handed to sanitizePath once more
SanitizeAgain ==
    /\ sanitized.applied = 1
    /\ sanitized' = [sanitized EXCEPT !.twice = sanitizePath(variant.fn, StringPath(sanitized.once)),
                                      !.applied = 2]
    /\ UNCHANGED <<constructVars, pipelineVars>>

\* the constructs that have a sanitizePath: functions.ts in both revisions
SanitizeVariants == { v \in Variants : v.stack = "main" /\ v.entry = "direct" }

InitSanitize ==
    /\ variant \in SanitizeVariants
    /\ cfg = BaseConfig
    /\ InitConstruct
    /\ \E p \in PathInputs : sanitized = [NoPath EXCEPT !.input = p]

NextSanitize ==
    \/ SanitizeRootDir
    \/ SanitizeAgain

SpecSanitize == InitSanitize /\ [][NextSanitize]_vars

----------------------------------------------------------------------------
(* The pipeline at work: executions of the stages this.codePipeline declares *)

PipelineDeployed == pc = "done" /\ codePipeline # NoPipeline

\* the artifact an execution's current stage takes as its input
InputArtifacts(e) ==
    { a \in artifacts :
        /\ a.execution = e
        /\ a.name = codePipeline.stages[executions[e].stage].input }

\* trigger: GitHubTrigger.WEBHOOK on branch: a push to the branch starts an execution
GitHubPush ==
    /\ PipelineDeployed
    /\ Len(commits) < MaxPushes
    /\ \E b \in Branches :
          /\ commits' = Append(commits, b)
          /\ executions' =
                IF codePipeline.source.trigger = "WEBHOOK" /\ b = codePipeline.source.branch
                THEN Append(executions, [revision |-> Len(commits) + 1, stage |-> 1,
                                         status |-> "InProgress", log |-> <<>>])
                ELSE executions
    /\ UNCHANGED <<constructVars, artifacts, deployRun, lambdaUpdate, sanitized>>

\* the first stage's action: the pushed revision becomes the stage's output artifact
SourceStage ==
    /\ PipelineDeployed
    /\ \E e \in 1..Len(executions) :
          LET x  == executions[e]
              st == codePipeline.stages[x.stage]
          IN  /\ x.status = "InProgress"
              /\ x.stage = 1
              /\ artifacts' = artifacts \cup
                    { [execution |-> e, name |-> st.outputs[1], stage |-> st.stageName,
                       files |-> {"Dockerfile", "package.json"}, revision |-> x.revision] }
              /\ executions' = [executions EXCEPT ![e].stage = 2]
    /\ UNCHANGED <<constructVars, commits, deployRun, lambdaUpdate, sanitized>>

\* the second stage's action: the build project runs on its input artifact; when
\* every command succeeds the files of artifacts.files become its output artifact
BuildStage ==
    /\ PipelineDeployed
    /\ \E e \in 1..Len(executions), ok \in BOOLEAN :
          LET x  == executions[e]
              st == codePipeline.stages[x.stage]
          IN  /\ x.status = "InProgress"
              /\ x.stage = 2
              /\ IF ok /\ InputArtifacts(e) # {}
                 THEN \E in \in InputArtifacts(e) :
                        /\ artifacts' = artifacts \cup
                              { [execution |-> e, name |-> st.outputs[1],
                                 stage |-> st.stageName,
                                 files |-> codePipeline.buildSpecs[x.stage].files,
                                 revision |-> in.revision] }
                        /\ executions' = [executions EXCEPT ![e].stage = 3]
                 ELSE /\ artifacts' = artifacts
                      /\ executions' = [executions EXCEPT ![e].status = "Failed"]
    /\ UNCHANGED <<constructVars, commits, deployRun, lambdaUpdate, sanitized>>

\* the third stage's action starts: the deploy project's build gets the action's
\* input artifact as its working directory
DeployStart ==
    /\ PipelineDeployed
    /\ deployRun = NoRun
    /\ \E e \in 1..Len(executions) :
          /\ executions[e].status = "InProgress"
          /\ executions[e].stage = 3
          /\ executions[e].log = <<>>
          /\ \E in \in InputArtifacts(e) :
                deployRun' = [execution |-> e, next |-> 1, failed |-> FALSE,
                              input |-> in, imageUri |-> 0]
    /\ UNCHANGED <<constructVars, commits, executions, artifacts, lambdaUpdate, sanitized>>

\* whether a command of the deploy project succeeds in the current state
CommandSucceeds(run) ==
    CASE run = "readImageUri" -> "imageUri.txt" \in deployRun.input.files
      [] run = "waitFunctionUpdated" -> lambdaUpdate.status = "Successful"
      [] run = "updateFunctionCodeImage" ->
            deployRun.imageUri # 0 /\ lambdaUpdate.status # "InProgress"
      [] run = "updateFunctionCodeZip" ->
            "function.zip" \in deployRun.input.files /\ lambdaUpdate.status # "InProgress"
      [] OTHER -> TRUE

\* the deploy project runs its next command; a command that fails ends the build
\* unless "|| echo" follows it
DeployCommand ==
    /\ PipelineDeployed
    /\ deployRun # NoRun
    /\ ~deployRun.failed
    /\ LET cmds == codePipeline.buildSpecs[3].commands
           e    == deployRun.execution
       IN  /\ deployRun.next <= Len(cmds)
           /\ LET cmd == cmds[deployRun.next]
                  ok  == CommandSucceeds(cmd.run)
              IN  /\ executions' = [executions EXCEPT
                         ![e].log = Append(@, [run |-> cmd.run, ok |-> ok,
                                               imageUri |-> deployRun.imageUri])]
                  /\ deployRun' = [deployRun EXCEPT
                         !.next = IF ok \/ cmd.orEcho THEN @ + 1 ELSE @,
                         !.failed = ~(ok \/ cmd.orEcho),
                         !.imageUri = IF cmd.run = "readImageUri" /\ ok
                                      THEN deployRun.input.revision ELSE @]
                  /\ lambdaUpdate' =
                         IF ok /\ cmd.run = "updateFunctionCodeImage"
                         THEN [lambdaUpdate EXCEPT !.status = "InProgress",
                                                   !.pending = deployRun.imageUri]
                         ELSE IF ok /\ cmd.run = "updateFunctionCodeZip"
                         THEN [lambdaUpdate EXCEPT !.status = "InProgress",
                                                   !.pending = deployRun.input.revision]
                         ELSE lambdaUpdate
    /\ UNCHANGED <<constructVars, commits, artifacts, sanitized>>

\* the deploy project's build ends and the execution with it
DeployEnd ==
    /\ PipelineDeployed
    /\ deployRun # NoRun
    /\ \/ deployRun.failed
       \/ deployRun.next > Len(codePipeline.buildSpecs[3].commands)
    /\ executions' = [executions EXCEPT ![deployRun.execution].status =
                          IF deployRun.failed THEN "Failed" ELSE "Succeeded"]
    /\ deployRun' = NoRun
    /\ UNCHANGED <<constructVars, commits, artifacts, lambdaUpdate, sanitized>>

\* the Lambda service finishes an update of the function's code, or gives it up
LambdaUpdateEnds ==
    /\ PipelineDeployed
    /\ lambdaUpdate.status = "InProgress"
    /\ \E ok \in BOOLEAN :
          lambdaUpdate' = IF ok
                          THEN [status |-> "Successful", code |-> lambdaUpdate.pending,
                                pending |-> 0]
                          ELSE [lambdaUpdate EXCEPT !.status = "Failed", !.pending = 0]
    /\ UNCHANGED <<constructVars, commits, executions, artifacts, deployRun, sanitized>>

\* stacks whose pipeline is built, of either flow
PipelineVariants == { v \in Variants : v.stack = "main" /\ v.entry = "direct" }

\* the source settings and the flow: the fields the pipeline's stages depend on
PipelineConfigs ==
    { [PipelineConfig EXCEPT !.dockerFile = d, !.owner = o, !.repo = r,
                             !.branchOrRef = br] :
        d \in {Undef, "Dockerfile"}, o \in {Undef, "owner"}, r \in {Undef, "repo"},
        br \in {Undef} \cup Branches }

InitPipeline ==
    /\ variant \in PipelineVariants
    /\ cfg \in PipelineConfigs
    /\ Init

NextPipeline ==
    \/ StackCheckEnv
    \/ StackCheckIdentity
    \/ StackRepository
    \/ FnPrefix
    \/ FnCreateFunction
    \/ FnAlias
    \/ FnAddVariables
    \/ FnSecretsDone
    \/ FnDomainName
    \/ FnApiGateway
    \/ FnUrl
    \/ FnDns
    \/ FnPingRule
    \/ FnOutput
    \/ StackPipelineGate
    \/ StackCheckSource
    \/ PipelineConstructor
    \/ StackEvents
    \/ GitHubPush
    \/ SourceStage
    \/ BuildStage
    \/ DeployStart
    \/ DeployCommand
    \/ DeployEnd
    \/ LambdaUpdateEnds

SpecPipeline == InitPipeline /\ [][NextPipeline]_vars

----------------------------------------------------------------------------
(* Sanity *)

\* no scope ever holds two constructs with the same id
UniqueIds ==
    \A i, j \in 1..Len(resources) :
        (resources[i].scope = resources[j].scope /\ resources[i].id = resources[j].id)
            => i = j

----------------------------------------------------------------------------
(* Where a run stands *)

Finished == pc \in {"done", "failed"}

\* the statement that threw
ErrorStep(e) ==
    CASE e = ErrEnv         -> "stackCheckEnv"
      [] e = ErrIdentity    -> "stackCheckIdentity"
      [] e = ErrDuplicateId -> "fnSecrets"
      [] e = ErrContext     -> "entryCheck"
      [] e = ErrSource      -> "stackCheckSource"
      [] e = ErrBuild       -> "stackCheckBuild"
      [] OTHER              -> "done"

\* the statement the run is at: the next to execute, or the one that threw
Position == IF pc = "failed" THEN ErrorStep(err) ELSE pc

\* a statement of the FunctionsConstruct constructor, or of the stack before it,
\* has been executed to its end
Passed(step) ==
    /\ StepIndex(variant, step) > 0
    /\ \/ pc = "done"
       \/ StepIndex(variant, Position) > StepIndex(variant, step)

AllDomainFields ==
    /\ Len(cfg.domain) > 0
    /\ cfg.regionalCertificateArn \notin {Undef, ""}
    /\ cfg.hostedZoneId \notin {Undef, ""}

HasDockerFile == cfg.dockerFile \notin {Undef, ""}
HasToken == cfg.accessTokenSecretArn \notin {Undef, ""}

----------------------------------------------------------------------------
(* Claims *)

\* C1: once the function construct has created its function there is exactly one
\* Lambda function resource; it is the package function iff dockerFile is absent
\* or empty and the container function iff dockerFile is non-empty. Before that
\* statement there is none.
C1_ExactlyOneFunction ==
    /\ Count(resources, FunctionKinds) <= 1
    /\ Passed("fnCreateFunction") =>
         /\ Count(resources, FunctionKinds) = 1
         /\ Count(resources, {"packageFunction"}) = 1 <=> ~HasDockerFile
         /\ Count(resources, {"containerFunction"}) = 1 <=> HasDockerFile

C1_Witness ==
    /\ pc = "done"
    /\ HasDockerFile
    /\ Count(resources, {"containerFunction"}) = 1
    /\ Count(resources, {"packageFunction"}) = 0

\* C2: once the function construct has passed its DNS statement, the A record
\* exists iff domain, regionalCertificateArn and hostedZoneId are all non-empty;
\* in every state the A and the AAAA record exist together or not at all, and
\* there is at most one of each.
C2_DnsRecordsIffAllThree ==
    /\ Count(resources, {"aRecord"}) = Count(resources, {"aaaaRecord"})
    /\ Count(resources, {"aRecord"}) <= 1
    /\ Passed("fnDns") => (Count(resources, {"aRecord"}) = 1 <=> AllDomainFields)

C2_Witness ==
    /\ pc = "done"
    /\ AllDomainFields
    /\ Count(resources, {"aRecord"}) = 1
    /\ Count(resources, {"aaaaRecord"}) = 1

\* C3 as claimed: when at least one of domain, regionalCertificateArn and
\* hostedZoneId is missing, no domain-name binding, no gateway domain mapping and
\* no DNS record is ever declared.
C3_PartialDomainSkipsEverything ==
    ~AllDomainFields =>
        Count(resources, {"domainName", "apiMapping", "aRecord", "aaaaRecord"}) = 0

\* C3 amended: without domain or without certificate nothing domain-related is
\* declared. With domain and certificate but no hosted zone only the DNS records
\* are skipped: the functions.ts construct still declares the domain-name binding
\* and the gateway's default domain mapping, the part_001 construct declares
\* nothing. A run with a partial domain configuration and no pipeline does not
\* fail once the secrets loop is behind it.
C3_PartialDomain ==
    /\ (Len(cfg.domain) = 0 \/ cfg.regionalCertificateArn \in {Undef, ""}) =>
         Count(resources, DomainKinds) = 0
    /\ ~AllDomainFields =>
         Count(resources, DnsKinds \cup {"hostedZoneImport"}) = 0
    /\ (~AllDomainFields /\ variant.fn = "old") =>
         Count(resources, DomainKinds) = 0
    /\ ( /\ Len(cfg.domain) > 0
         /\ cfg.regionalCertificateArn \notin {Undef, ""}
         /\ variant.fn # "old"
         /\ Passed("fnApiGateway") ) =>
         /\ Count(resources, {"domainName"}) = 1
         /\ Count(resources, {"apiMapping"}) = 1
    /\ (~AllDomainFields /\ ~HasToken /\ Passed("fnSecrets")) => pc # "failed"

C3_Witness ==
    /\ pc = "done"
    /\ ~AllDomainFields
    /\ cfg.hostedZoneId = Undef
    /\ Count(resources, {"domainName"}) = 1
    /\ Count(resources, {"apiMapping"}) = 1
    /\ Count(resources, DnsKinds) = 0

\* C4: when stack construction has completed without error, the pipeline
\* construct's resources (artifact bucket, the two projects, the pipeline and its
\* output) exist iff accessTokenSecretArn is non-empty; without it none exists.
C4_PipelineIffToken ==
    pc = "done" =>
        /\ HasToken =>
             /\ Count(resources, {"pipeline"}) = 1
             /\ Count(resources, {"bucket"}) = 1
             /\ Count(resources, {"pipelineProject"}) = 2
             /\ Count(resources, {"pipelineOutput"}) = 1
        /\ ~HasToken => Count(resources, PipelineKinds) = 0

C4_Witness ==
    /\ pc = "done"
    /\ HasToken
    /\ Count(resources, {"pipeline"}) = 1

\* the pipeline's source and build fields, as the configuration gives them
SourceFieldMissing ==
    \/ cfg.owner \in {Undef, ""}
    \/ cfg.repo \in {Undef, ""}
    \/ cfg.branchOrRef \in {Undef, ""}

\* (the build runtime is buildProps.runtime with buildProps.runtime_version)
BuildFieldMissing ==
    \/ cfg.buildRuntime \in {Undef, ""}
    \/ cfg.buildRuntimeVersion \in {Undef, ""}
    \/ cfg.installcmd \in {Undef, ""}
    \/ cfg.buildcmd \in {Undef, ""}

\* the run ended, with a token, after the function construct had returned
PipelineDecided ==
    /\ Finished
    /\ HasToken
    /\ err \notin {ErrEnv, ErrIdentity, ErrDuplicateId}

\* C5 as claimed: with the pipeline activated, construction fails with a
\* validation error iff a source field is missing or, in the package flow, the
\* build runtime, the install command or the build command is missing.
C5_BuildFieldsRequired ==
    PipelineDecided =>
        (err \in {ErrSource, ErrBuild}
            <=> (SourceFieldMissing \/ (~HasDockerFile /\ BuildFieldMissing)))

\* C5 amended: with the pipeline activated and the function construct built,
\* construction fails with 'Missing sourceProps' iff owner, repo or branchOrRef
\* is missing. Only the part_005 stack checks buildProps: with the source fields
\* complete it fails with 'Missing buildProps' iff runtime, runtime_version,
\* installcmd or buildcmd is missing, in the package and in the container flow.
\* FunctionStack.ts and part_003 require no build field; whenever the package
\* build project is created each missing build field has been replaced by its
\* default (nodejs, 20, npm install, npm run build) and each given one is kept.
C5_SourceRequiredBuildDefaulted ==
    /\ PipelineDecided =>
         /\ err = ErrSource <=> SourceFieldMissing
         /\ err = ErrBuild <=>
              /\ variant.stack = "p5"
              /\ ~SourceFieldMissing
              /\ BuildFieldMissing
         /\ err = NoError <=> pc = "done"
    /\ (pc = "done" /\ HasToken /\ ~HasDockerFile) =>
         /\ buildSpec.runtime =
              IF cfg.buildRuntime \in {Undef, ""} THEN "nodejs" ELSE cfg.buildRuntime
         /\ buildSpec.runtime_version =
              IF cfg.buildRuntimeVersion \in {Undef, ""} THEN "20"
              ELSE cfg.buildRuntimeVersion
         /\ buildSpec.installcmd =
              IF cfg.installcmd \in {Undef, ""} THEN "npm install" ELSE cfg.installcmd
         /\ buildSpec.buildcmd =
              IF cfg.buildcmd \in {Undef, ""} THEN "npm run build" ELSE cfg.buildcmd

C5_Witness ==
    /\ pc = "done"
    /\ HasToken
    /\ ~HasDockerFile
    /\ cfg.installcmd = Undef
    /\ buildSpec.installcmd = "npm install"
    /\ Count(resources, {"pipeline"}) = 1

\* C6 as claimed: whenever a validation error has been raised, no resource has
\* been declared.
C6_NoResourceBeforeAnyValidationError ==
    err \in ValidationErrors => Len(resources) = 0

\* C6 amended: the account/region error and the identity error are raised before
\* any resource is declared. The pipeline-prerequisite errors (missing
\* sourceProps; missing buildProps in part_005) are raised after the function
\* construct has been declared completely (and, in FunctionStack.ts, the ECR
\* repository), and before any pipeline resource or the events forwarder is
\* declared.
C6_FailFast ==
    /\ err \in {ErrEnv, ErrIdentity} => Len(resources) = 0
    /\ err \in {ErrSource, ErrBuild} =>
         /\ Count(resources, FunctionKinds) = 1
         /\ Count(resources, {"functionOutput"}) = 1
         /\ Count(resources, {"repository"}) = IF variant.stack = "main" THEN 1 ELSE 0
         /\ Count(resources, PipelineKinds \cup {"eventsConstruct"}) = 0

C6_Witness ==
    /\ pc = "failed"
    /\ err = ErrSource
    /\ variant.stack = "main"
    /\ Count(resources, FunctionKinds) = 1
    /\ Count(resources, {"repository"}) = 1

\* C7: a finished run has thrown 'Must provide AWS account and region.' iff props
\* or props.env is missing, and 'Mandatory stack properties missing.' iff env is
\* present and application, service or environment is empty; when neither was
\* thrown the function construct has been instantiated and has declared its
\* function, whatever the pipeline and domain settings are. (A run the script of
\* part_000 stops for want of context metadata never calls the stack constructor.)
C7_StackValidation ==
    (Finished /\ err # ErrContext) =>
        /\ err = ErrEnv <=> cfg.props # "env"
        /\ err = ErrIdentity <=>
             /\ cfg.props = "env"
             /\ \/ Len(cfg.application) = 0
                \/ Len(cfg.service) = 0
                \/ Len(cfg.environment) = 0
        /\ err \notin {ErrEnv, ErrIdentity} =>
             /\ Count(resources, FunctionKinds) = 1
             /\ Len(resourceIdPrefix.fn) > 0

C7_Witness ==
    /\ pc = "failed"
    /\ err = ErrIdentity
    /\ Len(cfg.service) = 0
    /\ Len(cfg.application) > 0
    /\ Len(cfg.environment) > 0

\* application + '-' + service + '-' + environment, character by character
Concatenation ==
    [i \in 1..(Len(cfg.application) + Len(cfg.service) + Len(cfg.environment) + 2) |->
        IF i <= Len(cfg.application) THEN cfg.application[i]
        ELSE IF i = Len(cfg.application) + 1 THEN "-"
        ELSE IF i <= Len(cfg.application) + 1 + Len(cfg.service)
             THEN cfg.service[i - Len(cfg.application) - 1]
        ELSE IF i = Len(cfg.application) + Len(cfg.service) + 2 THEN "-"
        ELSE cfg.environment[i - Len(cfg.application) - Len(cfg.service) - 2]]

\* p is the first n characters of s
IsFirstN(p, s, n) ==
    /\ Len(p) = (IF Len(s) < n THEN Len(s) ELSE n)
    /\ \A i \in 1..Len(p) : p[i] = s[i]

\* the length limit of the function construct of the running revision
FnLimit == IF variant.fn = "B" THEN 23 ELSE 42

\* C8 as claimed: the function construct's prefix is the first N characters of
\* application-service-environment, N being the construct's length limit.
C8_PrefixIsFirstN ==
    Passed("fnPrefix") => IsFirstN(resourceIdPrefix.fn, Concatenation, FnLimit)

\* the first 7 characters of an identity part, lower-cased
Part7(s) == [i \in 1..(IF Len(s) < 7 THEN Len(s) ELSE 7) |-> LowerChar(s[i])]

\* C8 amended: in FunctionStack.ts, the pipeline construct, functions.ts
\* revision A and part_001 the prefix is the first 42 characters of
\* application-service-environment. In functions.ts revision B it is the first 23
\* characters of the lower-cased concatenation, with '-', of the first 7
\* characters of each of application, service and environment. A prefix is never
\* longer than its construct's limit, and it is the whole (revision B: lower-
\* cased) concatenation when that fits the limit and, in revision B, no part is
\* longer than 7.
C8_Prefix ==
    /\ Len(resourceIdPrefix.stack) > 0 =>
         IsFirstN(resourceIdPrefix.stack, Concatenation, 42)
    /\ Len(resourceIdPrefix.pipeline) > 0 =>
         IsFirstN(resourceIdPrefix.pipeline, Concatenation, 42)
    /\ (Passed("fnPrefix") /\ variant.fn # "B") =>
         IsFirstN(resourceIdPrefix.fn, Concatenation, 42)
    /\ (Passed("fnPrefix") /\ variant.fn = "B") =>
         /\ IsFirstN(resourceIdPrefix.fn,
                     Part7(cfg.application) \o <<"-">> \o Part7(cfg.service)
                     \o <<"-">> \o Part7(cfg.environment), 23)
         /\ ( /\ Len(cfg.application) <= 7
              /\ Len(cfg.service) <= 7
              /\ Len(cfg.environment) <= 7 ) =>
              /\ Len(resourceIdPrefix.fn) = Len(Concatenation)
              /\ \A i \in 1..Len(Concatenation) :
                    resourceIdPrefix.fn[i] = LowerChar(Concatenation[i])
    /\ Passed("fnPrefix") => Len(resourceIdPrefix.fn) <= FnLimit
    /\ (Passed("fnPrefix") /\ variant.fn # "B" /\ Len(Concatenation) <= 42) =>
         resourceIdPrefix.fn = Concatenation

C8_Witness ==
    /\ pc = "done"
    /\ variant.fn = "A"
    /\ Len(Concatenation) > 42
    /\ Len(resourceIdPrefix.fn) = 42
    /\ resourceIdPrefix.fn # Concatenation
    /\ Len(resourceIdPrefix.pipeline) = 42

\* the grants on the execution role that read the resource of entry i
ReadGrantsFor(i) ==
    { g \in 1..Len(grants) : grants[g].entry = i /\ grants[g].action = "read" }

DistinctKeys ==
    \A i, j \in 1..Len(cfg.secrets) :
        cfg.secrets[i].key = cfg.secrets[j].key => i = j

\* C9 as claimed: for every list, repeated keys included, construction of the
\* secrets succeeds and each entry has exactly one read grant and an
\* environment variable named by its key.
C9_EveryListOneGrantPerEntry ==
    /\ err # ErrDuplicateId
    /\ Passed("fnSecrets") =>
         \A i \in 1..Len(cfg.secrets) :
            /\ Cardinality(ReadGrantsFor(i)) = 1
            /\ cfg.secrets[i].key \in DOMAIN lambdaEnv

\* C9 amended: for a list whose keys are pairwise distinct the loop succeeds;
\* each entry yields exactly one imported secret, exactly one grantRead on the
\* function's role for the entry's resource and one environment variable named
\* by its key that holds the entry's secret value. The part_001 construct adds,
\* after its loop, one more policy statement that names the parameter of every
\* entry, so there each entry's resource is granted twice. A list with a
\* repeated key makes construction fail with a duplicate construct id at the
\* second occurrence of the key.
C9_SecretsGrantAndEnvironment ==
    /\ (DistinctKeys /\ Passed("fnSecrets")) =>
         /\ Count(resources, {"secretImport"}) = Len(cfg.secrets)
         /\ \A i \in 1..Len(cfg.secrets) :
              /\ Cardinality({ g \in ReadGrantsFor(i) :
                                 /\ grants[g].via = "grantRead"
                                 /\ grants[g].resource = cfg.secrets[i].resource }) = 1
              /\ Cardinality({ g \in ReadGrantsFor(i) : grants[g].via # "grantRead" })
                   = (IF variant.fn = "old" THEN 1 ELSE 0)
              /\ cfg.secrets[i].key \in DOMAIN lambdaEnv
              /\ lambdaEnv[cfg.secrets[i].key][2] = cfg.secrets[i].resource
    /\ DistinctKeys => err # ErrDuplicateId
    /\ ~DistinctKeys => ~Passed("fnSecrets")
    /\ (~DistinctKeys /\ Finished) =>
         /\ err \in {ErrEnv, ErrIdentity, ErrDuplicateId}
         /\ err = ErrDuplicateId =>
              /\ secretIdx > 1
              /\ \E j \in 1..(secretIdx - 1) :
                    cfg.secrets[j].key = cfg.secrets[secretIdx].key
              /\ Count(resources, {"secretImport"}) = secretIdx - 1

C9_Witness ==
    /\ pc = "done"
    /\ Len(cfg.secrets) = 2
    /\ DistinctKeys
    /\ Cardinality(ReadGrantsFor(1)) = 1
    /\ Cardinality(ReadGrantsFor(2)) = 1
    /\ DOMAIN lambdaEnv = {"NODE_OPTIONS", "NITRO_PRESET", "K1", "K2"}

\* only env, the identity and function properties: no dockerFile, no domain
\* field, no access token
MinimalConfig ==
    /\ cfg.props = "env"
    /\ cfg.dockerFile \in {Undef, ""}
    /\ Len(cfg.domain) = 0
    /\ cfg.regionalCertificateArn \in {Undef, ""}
    /\ cfg.hostedZoneId \in {Undef, ""}
    /\ cfg.accessTokenSecretArn \in {Undef, ""}

\* C10 as claimed: a minimal configuration ends with exactly one function,
\* exactly one gateway, no DNS record and no pipeline resource.
C10_MinimalHasOneGateway ==
    (pc = "done" /\ MinimalConfig) =>
        /\ Count(resources, FunctionKinds) = 1
        /\ Count(resources, GatewayKinds) = 1
        /\ Count(resources, DnsKinds) = 0
        /\ Count(resources, PipelineKinds) = 0

\* C10 amended: a minimal configuration ends with exactly one function (the
\* package function), no DNS record and no pipeline resource. With the
\* functions.ts construct it has exactly one gateway, the HTTP API, with its
\* proxy route and no domain mapping; with the part_001 construct it has no
\* gateway, and a function URL unless url is false.
C10_Minimal ==
    (pc = "done" /\ MinimalConfig) =>
        /\ Count(resources, FunctionKinds) = 1
        /\ Count(resources, {"packageFunction"}) = 1
        /\ Count(resources, DnsKinds) = 0
        /\ Count(resources, DomainKinds) = 0
        /\ Count(resources, PipelineKinds \cup {"eventsConstruct"}) = 0
        /\ variant.fn # "old" =>
             /\ Count(resources, GatewayKinds) = 1
             /\ Count(resources, {"httpApi"}) = 1
             /\ Count(resources, {"httpRoute"}) = 1
        /\ variant.fn = "old" =>
             /\ Count(resources, GatewayKinds) = 0
             /\ Count(resources, {"functionUrl"}) = (IF cfg.url = "false" THEN 0 ELSE 1)

C10_Witness ==
    /\ pc = "done"
    /\ MinimalConfig
    /\ variant.stack = "main"
    /\ Count(resources, {"httpApi"}) = 1
    /\ Count(resources, FunctionKinds) = 1

\* the step of the function construct after which its gateway, if any, exists
GatewayStep == IF variant.fn = "old" THEN "fnDns" ELSE "fnApiGateway"

\* the gateway's default route and its proxy route both invoke this.lambdaFunction
GatewayIntegratesFunction ==
    /\ apiGateway.defaultIntegration = LambdaFunctionId(resources)
    /\ apiGateway.defaultIntegration \in {"Function", "ContainerFunction"}
    /\ \A r \in apiGateway.routes : r.integration = apiGateway.defaultIntegration

\* C11 as claimed: for every valid configuration, with or without domain
\* settings, the function construct has created exactly one gateway whose
\* default route integrates the function.
C11_AlwaysOneGateway ==
    Passed(GatewayStep) =>
        /\ Count(resources, GatewayKinds) = 1
        /\ GatewayIntegratesFunction

\* C11 amended: the functions.ts construct (both revisions) creates, for every
\* configuration and whatever the domain settings, exactly one HTTP API whose
\* default integration and whose GET/HEAD proxy route invoke the function it
\* created, and no gateway exists before that statement. The part_001 construct
\* creates its gateway, a REST API that proxies to the function, iff domain,
\* certificate and hosted zone are all set, and otherwise no gateway at all.
C11_Gateway ==
    /\ ~Passed(GatewayStep) =>
         /\ Count(resources, GatewayKinds) = 0
         /\ apiGateway = NoGateway
    /\ (Passed(GatewayStep) /\ variant.fn # "old") =>
         /\ Count(resources, GatewayKinds) = 1
         /\ Count(resources, {"httpApi"}) = 1
         /\ Count(resources, {"httpRoute"}) = 1
         /\ apiGateway.kind = "HttpApi"
         /\ GatewayIntegratesFunction
         /\ apiGateway.defaultDomainMapping = DomainNameEnabled(cfg)
    /\ (Passed(GatewayStep) /\ variant.fn = "old" /\ AllDomainFields) =>
         /\ Count(resources, GatewayKinds) = 1
         /\ Count(resources, {"restApi"}) = 1
         /\ apiGateway.kind = "LambdaRestApi"
         /\ GatewayIntegratesFunction
    /\ (Passed(GatewayStep) /\ variant.fn = "old" /\ ~AllDomainFields) =>
         /\ Count(resources, GatewayKinds) = 0
         /\ apiGateway = NoGateway

C11_Witness ==
    /\ pc = "done"
    /\ variant.fn = "B"
    /\ Len(cfg.domain) = 0
    /\ HasDockerFile
    /\ Count(resources, {"httpApi"}) = 1
    /\ apiGateway.defaultIntegration = "ContainerFunction"

\* the last two dot-separated labels of the domain
LastTwoLabels(d) == SubSeq(d, Len(d) - 1, Len(d))

\* C12 as claimed: when the DNS records are created for a domain of at least two
\* labels, the hosted zone is imported under the name made of the domain's last
\* two labels ('example.com' for 'api.example.com').
C12_ZoneNameIsLastTwoLabels ==
    (Passed("fnDns") /\ Count(resources, DnsKinds) > 0 /\ Len(cfg.domain) >= 2) =>
        hostedZone = LastTwoLabels(cfg.domain)

\* what the three revisions do instead: the zone name is the last label alone
\* ('com' for 'api.example.com')
C12_ZoneNameIsLastLabel ==
    /\ (Passed("fnDns") /\ Count(resources, DnsKinds) > 0) =>
         /\ Len(hostedZone) = 1
         /\ hostedZone[1] = cfg.domain[Len(cfg.domain)]
    /\ (~Passed("fnDns") \/ Count(resources, DnsKinds) = 0) => hostedZone = <<>>

C12_Witness ==
    /\ pc = "done"
    /\ Count(resources, {"aRecord"}) = 1
    /\ cfg.domain = <<"api", "example", "com">>
    /\ hostedZone = <<"com">>

\* the user has set the runtime / the architecture the construct receives
RuntimeSet ==
    \/ functionProps.runtime.tag = "Runtime"
    \/ functionProps.runtime.tag = "string" /\ Len(functionProps.runtime.name) > 0
ArchitectureSet ==
    \/ functionProps.architecture.tag = "Architecture"
    \/ functionProps.architecture.tag = "string" /\ Len(functionProps.architecture.name) > 0

\* C13 as claimed: a value the user sets, 0 included for memorySize and timeout,
\* is the value the function is created with; unset, the function gets ARM_64,
\* Node.js 20, 1792 and 10 seconds; the log retention is one month for the
\* package and for the container function. (The runtime is read for the package
\* function, the only one that has a runtime property.)
C13_SetValuesUsedExactly ==
    Passed("fnCreateFunction") =>
        /\ lambdaFunction.architecture =
             (IF ArchitectureSet THEN functionProps.architecture ELSE ARM_64)
        /\ lambdaFunction.kind = "Function" =>
             lambdaFunction.runtime =
                (IF RuntimeSet THEN functionProps.runtime ELSE NODEJS_20_X)
        /\ lambdaFunction.memorySize =
             (IF cfg.memorySize # NoNumber THEN cfg.memorySize ELSE 1792)
        /\ lambdaFunction.timeout =
             (IF cfg.timeout # NoNumber THEN cfg.timeout ELSE 10)
        /\ lambdaFunction.logRetention = "ONE_MONTH"

\* C13 amended: architecture and runtime are the user's value when set, else
\* ARM_64 and Node.js 20 (the runtime belongs to the package function only: the
\* container function is created without one). memorySize and timeout are the
\* user's value when it is set and not 0; unset or 0 they are 1792 and 10
\* seconds, so the function is never created with a memory size or timeout of
\* 0. The log retention is one month for both kinds of function.
C13_FunctionDefaults ==
    /\ ~Passed("fnCreateFunction") => lambdaFunction = NoFunction
    /\ Passed("fnCreateFunction") =>
        /\ lambdaFunction.kind =
             (IF Count(resources, {"containerFunction"}) = 1
              THEN "DockerImageFunction" ELSE "Function")
        /\ lambdaFunction.architecture =
             (IF ArchitectureSet THEN functionProps.architecture ELSE ARM_64)
        /\ lambdaFunction.kind = "Function" =>
             lambdaFunction.runtime =
                (IF RuntimeSet THEN functionProps.runtime ELSE NODEJS_20_X)
        /\ lambdaFunction.kind = "DockerImageFunction" =>
             lambdaFunction.runtime = Unset
        /\ cfg.memorySize > 0 => lambdaFunction.memorySize = cfg.memorySize
        /\ cfg.memorySize \in {NoNumber, 0} => lambdaFunction.memorySize = 1792
        /\ cfg.timeout > 0 => lambdaFunction.timeout = cfg.timeout
        /\ cfg.timeout \in {NoNumber, 0} => lambdaFunction.timeout = 10
        /\ lambdaFunction.memorySize > 0
        /\ lambdaFunction.timeout > 0
        /\ lambdaFunction.logRetention = "ONE_MONTH"

C13_Witness ==
    /\ pc = "done"
    /\ cfg.memorySize = 0
    /\ cfg.timeout = 30
    /\ cfg.architecture = X86_64
    /\ cfg.runtime = Unset
    /\ lambdaFunction.kind = "Function"
    /\ lambdaFunction.memorySize = 1792
    /\ lambdaFunction.timeout = 30
    /\ lambdaFunction.architecture = X86_64
    /\ lambdaFunction.runtime = NODEJS_20_X

ProvisionedConcurrencySet == cfg.provisionedConcurrency # NoNumber

\* a version of the function and the alias 'live' pinned to it, with the
\* requested provisioned concurrency
VersionAndAlias ==
    /\ Count(resources, {"alias"}) = 1
    /\ Count(resources, {"version"}) = 1
    /\ alias.aliasName = "live"
    /\ alias.version = <<LambdaFunctionId(resources), "CurrentVersion">>
    /\ alias.provisionedConcurrentExecutions = cfg.provisionedConcurrency

NoVersionNoAlias ==
    /\ Count(resources, {"alias", "version"}) = 0
    /\ alias = NoAlias

\* C14 as claimed: the version and the alias 'live' with the requested
\* provisioned concurrency are created iff provisionedConcurrency is set to any
\* number, 0 included; there is never more than one alias.
C14_AliasIffSet ==
    /\ Count(resources, {"alias"}) <= 1
    /\ Passed("fnAlias") =>
         IF ProvisionedConcurrencySet THEN VersionAndAlias ELSE NoVersionNoAlias

\* C14 amended: functions.ts revision A and part_001 create the version and the
\* alias iff provisionedConcurrency is set to any number, 0 included;
\* functions.ts revision B creates them iff provisionedConcurrency is greater
\* than 0, so there a configured 0 yields no version and no alias. An alias that
\* is created is named 'live', is pinned to the current version of the function
\* and carries the requested value; there is never more than one.
C14_Alias ==
    /\ Count(resources, {"alias"}) <= 1
    /\ ~Passed("fnAlias") => NoVersionNoAlias
    /\ (Passed("fnAlias") /\ variant.fn # "B") =>
         IF ProvisionedConcurrencySet THEN VersionAndAlias ELSE NoVersionNoAlias
    /\ (Passed("fnAlias") /\ variant.fn = "B") =>
         IF cfg.provisionedConcurrency > 0 THEN VersionAndAlias ELSE NoVersionNoAlias

C14_Witness ==
    /\ pc = "done"
    /\ variant.fn = "A"
    /\ cfg.provisionedConcurrency = 0
    /\ VersionAndAlias
    /\ alias.provisionedConcurrentExecutions = 0

\* the entry point warned about the runtime / the architecture string
WarnedAbout(what) == \E i \in 1..Len(warnings) : warnings[i].about = what

MappedEntry == variant.entry = "part_000"

\* C15 as claimed: after the entry point has warned about an unrecognised
\* runtime or architecture string, the string is not what the function construct
\* receives, the function is built with the fallback default (Node.js 20 /
\* ARM_64), and no error is raised.
C15_UnrecognisedFallsBackToDefault ==
    (MappedEntry /\ Passed("entryMap")) =>
        /\ WarnedAbout("runtime") =>
             /\ functionProps.runtime.tag # "string"
             /\ (Passed("fnCreateFunction") /\ lambdaFunction.kind = "Function") =>
                  lambdaFunction.runtime = NODEJS_20_X
        /\ WarnedAbout("architecture") =>
             /\ functionProps.architecture.tag # "string"
             /\ Passed("fnCreateFunction") => lambdaFunction.architecture = ARM_64
        /\ (WarnedAbout("runtime") \/ WarnedAbout("architecture")) => err = NoError

\* what part_000 does: a recognised string is replaced by the object it names;
\* an unrecognised one is warned about and then handed on unchanged, because
\* the spread of rawMetadata.functionProps still carries it, and the function
\* is created with it
C15_UnrecognisedStringHandedOn ==
    (MappedEntry /\ Passed("entryMap")) =>
        /\ WarnedAbout("runtime") <=>
             /\ cfg.runtime.tag = "string"
             /\ Len(cfg.runtime.name) > 0
             /\ functionProps.runtime = cfg.runtime
        /\ WarnedAbout("architecture") <=>
             /\ cfg.architecture.tag = "string"
             /\ Len(cfg.architecture.name) > 0
             /\ functionProps.architecture = cfg.architecture
        /\ (Passed("fnCreateFunction") /\ WarnedAbout("architecture")) =>
             lambdaFunction.architecture = cfg.architecture
        /\ ( /\ Passed("fnCreateFunction")
             /\ WarnedAbout("runtime")
             /\ lambdaFunction.kind = "Function" ) =>
             lambdaFunction.runtime = cfg.runtime

C15_Witness ==
    /\ pc = "done"
    /\ MappedEntry
    /\ cfg.runtime = StringValue(<<"p", "y", "t", "h", "o", "n", "3", ".", "1", "2">>)
    /\ cfg.architecture = StringValue(<<"A", "R", "M", "6", "4">>)
    /\ WarnedAbout("runtime")
    /\ ~WarnedAbout("architecture")
    /\ lambdaFunction.runtime = cfg.runtime
    /\ lambdaFunction.architecture = ARM_64

\* the function URL and the output that publishes it
HasFunctionUrl ==
    /\ Count(resources, {"functionUrl"}) = 1
    /\ Count(resources, {"functionUrlOutput"}) = 1

NoFunctionUrl == Count(resources, {"functionUrl", "functionUrlOutput"}) = 0

\* C16 as claimed: the function URL is enabled by default; it and its output are
\* created when functionProps.url is unset or true, and omitted only when url
\* is explicitly false.
C16_UrlEnabledByDefault ==
    Passed("fnUrl") =>
        IF cfg.url = "false" THEN NoFunctionUrl ELSE HasFunctionUrl

\* what the revisions do: part_001 creates the URL unless url is false; both
\* revisions of functions.ts create it only when url is true, so an unset url
\* leaves the function without a URL
C16_UrlPerRevision ==
    /\ ~Passed("fnUrl") => NoFunctionUrl
    /\ (Passed("fnUrl") /\ variant.fn = "old") =>
         IF cfg.url = "false" THEN NoFunctionUrl ELSE HasFunctionUrl
    /\ (Passed("fnUrl") /\ variant.fn # "old") =>
         IF cfg.url = "true" THEN HasFunctionUrl ELSE NoFunctionUrl

C16_Witness ==
    /\ pc = "done"
    /\ variant.fn = "B"
    /\ cfg.url = Undef
    /\ NoFunctionUrl
    /\ Count(resources, {"httpApi"}) = 1

\* the listed paths that exist under the root directory
ExistingIncludes ==
    { cfg.include[i] : i \in { j \in 1..Len(cfg.include) : cfg.include[j] \in cfg.rootDirFiles } }

\* C17 as claimed: for a container deployment every listed path that exists
\* under the root directory has been copied into the build output directory
\* when the container function (and with it the image asset) is created; a
\* listed path that does not exist is not copied.
C17_ContainerIncludesCopied ==
    (Passed("fnCreateFunction") /\ Count(resources, {"containerFunction"}) = 1) =>
        codeDirFiles = ExistingIncludes

\* what the revisions do: functions.ts copies the existing listed paths when it
\* creates the package function, and nothing else; creating the container
\* function copies nothing, and part_001 never copies
C17_IncludesCopiedForPackageOnly ==
    /\ ~Passed("fnCreateFunction") => codeDirFiles = {}
    /\ (Passed("fnCreateFunction") /\ Count(resources, {"containerFunction"}) = 1) =>
         codeDirFiles = {}
    /\ (Passed("fnCreateFunction") /\ variant.fn = "old") => codeDirFiles = {}
    /\ ( /\ Passed("fnCreateFunction")
         /\ variant.fn # "old"
         /\ Count(resources, {"packageFunction"}) = 1 ) =>
         codeDirFiles = ExistingIncludes

C17_Witness ==
    /\ pc = "done"
    /\ Count(resources, {"containerFunction"}) = 1
    /\ cfg.include = <<"package.json", "handler.js">>
    /\ cfg.rootDirFiles = {"package.json"}
    /\ codeDirFiles = {}

\* the PipelineConstruct constructor has run: its prefix is assigned
PipelineConstructRan == Len(resourceIdPrefix.pipeline) > 0

\* the pipeline construct has declared the construct with this id
PipelineHas(id) == IdTaken(resources, PipelineScope, <<id>>)

ContainerFlowIds == {"LambdaRepo", "DockerBuildProject", "DockerDeployProject", "DockerPipeline"}
PackageFlowIds == {"LambdaBuildProject", "LambdaDeployProject", "LambdaPipeline"}

\* C18: once the pipeline construct has run there is exactly one pipeline; it has
\* the registry repository, the image build and the image deploy project and
\* no construct of the package flow iff functionProps.dockerFile is non-empty,
\* and the zip build and the zip deploy project and no construct of the
\* container flow iff it is empty; the flow is the container flow exactly when
\* the function construct created the container function.
C18_PipelineFlows ==
    /\ ~PipelineConstructRan => Count(resources, PipelineKinds) = 0
    /\ (pc = "done" /\ HasToken) => PipelineConstructRan
    /\ PipelineConstructRan =>
        /\ Count(resources, {"pipeline"}) = 1
        /\ Count(resources, {"bucket"}) = 1
        /\ IF HasDockerFile
           THEN /\ \A id \in ContainerFlowIds : PipelineHas(id)
                /\ \A id \in PackageFlowIds : ~PipelineHas(id)
                /\ Count(resources, {"pipelineRepository"}) = 1
           ELSE /\ \A id \in PackageFlowIds : PipelineHas(id)
                /\ \A id \in ContainerFlowIds : ~PipelineHas(id)
                /\ Count(resources, {"pipelineRepository"}) = 0
        /\ Count(resources, {"pipelineProject"}) = 2
        /\ PipelineHas("DockerPipeline") <=> Count(resources, {"containerFunction"}) = 1
        /\ PipelineHas("LambdaPipeline") <=> Count(resources, {"packageFunction"}) = 1

C18_Witness ==
    /\ pc = "done"
    /\ PipelineConstructRan
    /\ cfg.dockerFile = ""
    /\ PipelineHas("LambdaPipeline")
    /\ PipelineHas("LambdaBuildProject")
    /\ Count(resources, {"packageFunction"}) = 1

----------------------------------------------------------------------------
(* C19: the stages of both flows and the artifacts that pass between them *)

StageNames == [i \in 1..Len(codePipeline.stages) |-> codePipeline.stages[i].stageName]

\* the file the flow's build hands to its deploy
PackageFile == IF IsContainerPipeline(cfg) THEN "imageUri.txt" ELSE "function.zip"

\* the declared wiring: three stages, webhook source, each stage fed by the one before
StagesWired ==
    /\ StageNames = <<"Source", "Build", "Deploy">>
    /\ codePipeline.source.trigger = "WEBHOOK"
    /\ codePipeline.source.owner = cfg.owner
    /\ codePipeline.source.repo = cfg.repo
    /\ codePipeline.source.branch = cfg.branchOrRef
    /\ codePipeline.stages[1].outputs = <<"SourceOutput">>
    /\ codePipeline.stages[2].input = codePipeline.stages[1].outputs[1]
    /\ Len(codePipeline.stages[2].outputs) = 1
    /\ codePipeline.stages[3].input = codePipeline.stages[2].outputs[1]
    /\ codePipeline.buildSpecs[2].files = {PackageFile}

\* the running deploy works on the build output of its own execution
DeployOnOwnBuild ==
    deployRun # NoRun =>
        /\ deployRun.input.execution = deployRun.execution
        /\ deployRun.input.stage = "Build"
        /\ deployRun.input.files = {PackageFile}
        /\ deployRun.input.revision = executions[deployRun.execution].revision

\* C19: once the pipeline construct has run, in either flow, the pipeline has the
\* stages Source, Build, Deploy in this order; the source action is triggered by
\* webhook on the configured owner, repository and branch, so every execution
\* carries a commit of that branch; the build's input is the source output, the
\* deploy's input is the build's single output (function.zip in the package
\* flow, imageUri.txt in the container flow), and a running deploy works on the
\* artifact that the build of the same execution produced from that commit
C19_StagesAndArtifacts ==
    PipelineConstructRan =>
        /\ StagesWired
        /\ \A e \in 1..Len(executions) :
              /\ commits[executions[e].revision] = cfg.branchOrRef
              /\ executions[e].stage >= 2 =>
                    \E a \in artifacts : /\ a.execution = e
                                         /\ a.stage = "Source"
                                         /\ a.revision = executions[e].revision
        /\ DeployOnOwnBuild

\* a deploy past its first command while another execution holds a build
\* artifact of its own, after a push to a branch the pipeline does not follow
C19_Witness ==
    /\ PipelineConstructRan
    /\ deployRun # NoRun
    /\ deployRun.next > 1
    /\ DeployOnOwnBuild
    /\ \E e \in 1..Len(executions) :
          /\ e # deployRun.execution
          /\ \E a \in artifacts : a.execution = e /\ a.stage = "Build"
    /\ \E i \in 1..Len(commits) : commits[i] # cfg.branchOrRef

----------------------------------------------------------------------------
(* C20: the commands of the container flow's deploy stage *)

ContainerExecutions ==
    IF PipelineConstructRan /\ IsContainerPipeline(cfg) THEN 1..Len(executions) ELSE {}

IsPrefix(s, t) == Len(s) <= Len(t) /\ \A i \in 1..Len(s) : s[i] = t[i]

IsLambdaCall(entry) == entry.run \in {"waitFunctionUpdated", "updateFunctionCodeImage"}

\* the calls to the Lambda service a deploy has made so far, in order
LambdaCalls(e) ==
    LET calls == SelectSeq(executions[e].log, IsLambdaCall)
    IN  [i \in 1..Len(calls) |-> calls[i].run]

\* wait, update, wait: the calls are made in this order and none is repeated
CallsInOrder(e) ==
    IsPrefix(LambdaCalls(e),
             <<"waitFunctionUpdated", "updateFunctionCodeImage", "waitFunctionUpdated">>)

\* the update carries the image URI that the same execution's build wrote
UpdateUsesBuiltImage(e) ==
    \A i \in 1..Len(executions[e].log) :
        executions[e].log[i].run = "updateFunctionCodeImage" /\ executions[e].log[i].ok
            => executions[e].log[i].imageUri = executions[e].revision

\* some wait before entry i has seen the function ready
ReadyObservedBefore(e, i) ==
    \E j \in 1..(i - 1) :
        /\ executions[e].log[j].run = "waitFunctionUpdated"
        /\ executions[e].log[j].ok

\* some wait before entry i has ended, whatever its result
WaitedBefore(e, i) ==
    \E j \in 1..(i - 1) : executions[e].log[j].run = "waitFunctionUpdated"

\* before entry i the update was accepted and a later wait has succeeded
ConvergedBefore(e, i) ==
    \E k \in 1..(i - 1), j \in 1..(i - 1) :
        /\ k < j
        /\ executions[e].log[k].run = "updateFunctionCodeImage"
        /\ executions[e].log[k].ok
        /\ executions[e].log[j].run = "waitFunctionUpdated"
        /\ executions[e].log[j].ok

\* success is echoed, and the execution succeeds, only after the second wait
SuccessAfterSecondWait(e) ==
    /\ \A i \in 1..Len(executions[e].log) :
          executions[e].log[i].run = "echoUpdated" => ConvergedBefore(e, i)
    /\ executions[e].status = "Succeeded" =>
          ConvergedBefore(e, Len(executions[e].log))

----------------------------------------------------------------------------
(* C21: the pipeline's artifact bucket *)

\* the buckets declared so far
Buckets == OfKind(resources, {"bucket"})

\* C21: once the pipeline construct has run, in either flow and for every
\* configuration, exactly one bucket is declared, it is the pipeline's artifact
\* bucket, and it blocks all public access, enforces SSL, is encrypted, has
\* removal policy DESTROY and deletes its objects automatically; where no
\* pipeline construct has run, no bucket is declared
C21_ArtifactBucket ==
    /\ PipelineConstructRan =>
          /\ Cardinality(Buckets) = 1
          /\ \A i \in Buckets : /\ resources[i].scope = PipelineScope
                                 /\ resources[i].id = <<"PipelineArtifactsBucket">>
          /\ codePipeline.artifactBucket.blockPublicAccess = "BLOCK_ALL"
          /\ codePipeline.artifactBucket.enforceSSL
          /\ codePipeline.artifactBucket.encryption = "S3_MANAGED"
          /\ codePipeline.artifactBucket.removalPolicy = "DESTROY"
          /\ codePipeline.artifactBucket.autoDeleteObjects
          /\ codePipeline.artifactBucket.bucketName.prefix = resourceIdPrefix.pipeline
    /\ ~PipelineConstructRan => Buckets = {}

\* a container pipeline and its bucket, built from a configuration that sets
\* every optional pipeline field
C21_Witness ==
    /\ PipelineConstructRan
    /\ IsContainerPipeline(cfg)
    /\ Cardinality(Buckets) = 1
    /\ codePipeline.artifactBucket.blockPublicAccess = "BLOCK_ALL"
    /\ cfg.eventTarget # Undef
    /\ cfg.buildRuntime # Undef

----------------------------------------------------------------------------
(* C22: the exported outputs and the resources they refer to *)

\* the outputs whose value is read from the given field
OutputsOf(value) == { i \in 1..Len(outputs) : outputs[i].value = value }

\* the prefix of the construct that declares the output
DeclaringPrefix(o) ==
    IF o.value = "codePipeline.pipelineName" THEN resourceIdPrefix.pipeline
                                             ELSE resourceIdPrefix.fn

\* C22: in every state the gateway-URL output exists iff a gateway has been
\* declared, the function-URL output exists iff a function URL has been
\* declared, and the pipeline-name output exists iff a pipeline has been
\* declared, each at most once; every output is declared after a function
\* exists; once the function construct's constructor has returned there is
\* exactly one function-name output; every export name starts with the
\* resourceIdPrefix of the construct that declares it
C22_OutputsMatchResources ==
    /\ Cardinality(OutputsOf("apiGateway.url")) = Count(resources, GatewayKinds)
    /\ Cardinality(OutputsOf("lambdaFunctionUrl.url")) = Count(resources, {"functionUrl"})
    /\ Cardinality(OutputsOf("codePipeline.pipelineName")) = Count(resources, {"pipeline"})
    /\ Count(resources, GatewayKinds \cup {"functionUrl", "pipeline"}) <= 3
    /\ Cardinality(OutputsOf("apiGateway.url")) <= 1
    /\ Cardinality(OutputsOf("lambdaFunctionUrl.url")) <= 1
    /\ Cardinality(OutputsOf("codePipeline.pipelineName")) <= 1
    /\ Cardinality(OutputsOf("lambdaFunction.functionName")) =
          (IF Passed("fnOutput") THEN 1 ELSE 0)
    /\ Len(outputs) > 0 => Count(resources, FunctionKinds) = 1
    /\ OutputsOf("apiGateway.url") # {} => apiGateway # NoGateway
    /\ OutputsOf("codePipeline.pipelineName") # {} => codePipeline # NoPipeline
    /\ \A i \in 1..Len(outputs) : outputs[i].exportName.prefix = DeclaringPrefix(outputs[i])

\* a finished stack that has all four outputs, the function construct's three
\* under another prefix than the pipeline's
C22_Witness ==
    /\ pc = "done"
    /\ Len(outputs) = 4
    /\ \A v \in {"apiGateway.url", "lambdaFunctionUrl.url", "codePipeline.pipelineName",
                  "lambdaFunction.functionName"} : Cardinality(OutputsOf(v)) = 1
    /\ resourceIdPrefix.fn # resourceIdPrefix.pipeline

----------------------------------------------------------------------------
(* C23: the pipeline-events forwarder *)

EventsConstructs == OfKind(resources, {"eventsConstruct"})

\* the revisions of the stack that know the forwarder
HasEventsStep == StepIndex(variant, "stackEvents") > 0

\* never without a pipeline, and always on the pipeline of the same stack
ForwarderOnOwnPipeline ==
    /\ EventsConstructs # {} =>
          /\ Cardinality(EventsConstructs) = 1
          /\ PipelineConstructRan
          /\ Count(resources, {"pipeline"}) = 1
          /\ pipelineEvents # NoPipeline
          /\ pipelineEvents = codePipeline
    /\ EventsConstructs = {} => pipelineEvents = NoPipeline

\* C23 as the specification states it: a stack whose constructor has returned
\* has the forwarder iff accessTokenSecretArn and eventTarget are both
\* supplied; the forwarder never exists without a pipeline and is wired to the
\* pipeline of the same stack
C23_ForwarderIffTokenAndTarget ==
    /\ pc = "done" => (EventsConstructs # {} <=> (HasToken /\ Truthy(cfg.eventTarget)))
    /\ ForwarderOnOwnPipeline

\* C23, amended: in FunctionStack.ts and part_003 a stack whose constructor has
\* returned has the forwarder iff accessTokenSecretArn and eventTarget are both
\* non-empty; part_004 and part_005 never create a forwarder, whatever is
\* supplied; in every revision the forwarder never exists without a pipeline
\* and is wired to the pipeline created in the same stack
C23_Forwarder ==
    /\ (pc = "done" /\ HasEventsStep) =>
          (EventsConstructs # {} <=> (HasToken /\ Truthy(cfg.eventTarget)))
    /\ ~HasEventsStep => EventsConstructs = {}
    /\ ForwarderOnOwnPipeline

\* a forwarder on a container pipeline
C23_Witness ==
    /\ pc = "done"
    /\ EventsConstructs # {}
    /\ pipelineEvents = codePipeline
    /\ codePipeline.name = "DockerPipeline"

----------------------------------------------------------------------------
(* C24: a domain configuration that is only partly supplied *)

\* some, but not all, of domain, regionalCertificateArn and hostedZoneId
PartialDomain ==
    /\ ~AllDomainFields
    /\ \/ Len(cfg.domain) > 0
       \/ cfg.regionalCertificateArn \notin {Undef, ""}
       \/ cfg.hostedZoneId \notin {Undef, ""}

\* C24 as the specification states it, for the functions.ts construct (the
\* part_001 construct being the one that skips): with a partial domain
\* configuration the construct raises an error, so its constructor never
\* gets past the domain statements
C24_PartialDomainThrows ==
    (variant.fn # "old" /\ PartialDomain) => ~Passed("fnDns")

\* C24, amended: no revision raises an error for a partial domain
\* configuration. A run whose configuration is partial fails only with an
\* error another field causes (env, identity, a repeated secret key, the
\* pipeline's source or build fields, the context metadata), never without
\* such a cause. The revisions differ in what they skip:
\* part_001 declares nothing for the domain, functions.ts still declares the
\* domain name and the gateway's domain mapping when domain and certificate
\* are given and skips only the DNS records
C24_PartialDomainNeverThrows ==
    PartialDomain =>
        /\ pc = "failed" =>
              \/ err = ErrEnv /\ EnvMissing(cfg)
              \/ err = ErrIdentity /\ (~TruthySeq(cfg.application)
                                         \/ ~TruthySeq(cfg.environment)
                                         \/ ~TruthySeq(cfg.service))
              \/ err = ErrDuplicateId /\ ~DistinctKeys
              \/ err = ErrSource /\ HasToken /\ SourceFieldMissing
              \/ err = ErrBuild /\ HasToken /\ BuildFieldMissing
              \/ err = ErrContext /\ MetadataMissing(cfg)
        /\ (pc = "done" /\ variant.fn = "old") => Count(resources, DomainKinds) = 0
        /\ ( /\ pc = "done"
             /\ variant.fn # "old"
             /\ Len(cfg.domain) > 0
             /\ cfg.regionalCertificateArn \notin {Undef, ""} ) =>
              /\ Count(resources, {"domainName", "apiMapping"}) = 2
              /\ Count(resources, DnsKinds) = 0

\* a functions.ts construct that has run to its end on a domain and a
\* certificate without a hosted zone
C24_Witness ==
    /\ pc = "done"
    /\ variant.fn # "old"
    /\ PartialDomain
    /\ Len(cfg.domain) > 0
    /\ cfg.hostedZoneId = Undef
    /\ Count(resources, {"domainName", "apiMapping"}) = 2

----------------------------------------------------------------------------
(* C25: reserved concurrency *)

\* C25 as the specification states it: the created function's
\* reservedConcurrentExecutions equals functionProps.reservedConcurrency for
\* every supplied value, 0 included, and is unset iff the value is unset, for
\* the package and the container function
C25_ReservedPassThrough ==
    Passed("fnCreateFunction") =>
        lambdaFunction.reservedConcurrentExecutions = cfg.reservedConcurrency

\* C25, amended: in functions.ts revision A and in part_001 the created
\* function's reservedConcurrentExecutions equals the supplied value, 0
\* included, and is unset iff the value is unset; in functions.ts revision B it
\* equals the supplied value when that is greater than 0 and is unset when the
\* value is unset or 0; the same for the package and the container function
C25_Reserved ==
    Passed("fnCreateFunction") =>
        /\ lambdaFunction.kind \in {"Function", "DockerImageFunction"}
        /\ variant.fn # "B" =>
              lambdaFunction.reservedConcurrentExecutions = cfg.reservedConcurrency
        /\ variant.fn = "B" =>
              lambdaFunction.reservedConcurrentExecutions =
                  (IF cfg.reservedConcurrency = 0 THEN NoNumber
                                                  ELSE cfg.reservedConcurrency)

\* a container function of revision A created with reserved concurrency 0
C25_Witness ==
    /\ Passed("fnCreateFunction")
    /\ variant.fn = "A"
    /\ lambdaFunction.kind = "DockerImageFunction"
    /\ cfg.reservedConcurrency = 0
    /\ lambdaFunction.reservedConcurrentExecutions = 0

----------------------------------------------------------------------------
(* C26: one prefix per stack *)

\* the prefixes computed so far in this stack
ComputedPrefixes ==
    (IF Len(resourceIdPrefix.stack) > 0 THEN {resourceIdPrefix.stack} ELSE {})
    \cup (IF Passed("fnPrefix") THEN {resourceIdPrefix.fn} ELSE {})
    \cup (IF PipelineConstructRan THEN {resourceIdPrefix.pipeline} ELSE {})

\* the prefixes of the names given so far: export names and the bucket's name
NamePrefixes ==
    { outputs[i].exportName.prefix : i \in 1..Len(outputs) }
    \cup (IF PipelineConstructRan THEN {codePipeline.artifactBucket.bucketName.prefix}
                                   ELSE {})

\* every part fits revision B's limit of 7 and has no upper-case letter
FitsRevisionB ==
    /\ Len(cfg.application) <= PartLimitB
    /\ Len(cfg.service) <= PartLimitB
    /\ Len(cfg.environment) <= PartLimitB
    /\ ToLowerCase(Concatenation) = Concatenation

\* C26 as stated: the stack, the function construct and the pipeline
\* construct of one stack compute the same prefix, and every export name and
\* resource name carries it, for every identity
C26_OnePrefix ==
    /\ Cardinality(ComputedPrefixes) <= 1
    /\ NamePrefixes \subseteq ComputedPrefixes
    /\ Cardinality(NamePrefixes) <= 1

\* C26, amended: the stack and the pipeline construct always compute the same
\* prefix; the function construct of functions.ts revision A and of part_001
\* computes that prefix too, so all names of such a stack share it. The
\* function construct of functions.ts revision B computes the same prefix as
\* the stack and the pipeline iff no identity part is longer than 7 characters
\* and none has an upper-case letter; otherwise its export names carry another
\* prefix than the pipeline's names. Every name carries the prefix of the
\* construct that declares it
C26_Prefixes ==
    /\ (Len(resourceIdPrefix.stack) > 0 /\ PipelineConstructRan) =>
          resourceIdPrefix.pipeline = resourceIdPrefix.stack
    /\ NamePrefixes \subseteq ComputedPrefixes
    /\ variant.fn # "B" => Cardinality(ComputedPrefixes) <= 1
    /\ (variant.fn = "B" /\ Passed("fnPrefix")) =>
          /\ Len(resourceIdPrefix.stack) > 0 =>
                (resourceIdPrefix.fn = resourceIdPrefix.stack <=> FitsRevisionB)
          /\ PipelineConstructRan =>
                (resourceIdPrefix.fn = resourceIdPrefix.pipeline <=> FitsRevisionB)

\* a finished stack of revision B whose function outputs and pipeline output
\* carry different prefixes
C26_Witness ==
    /\ pc = "done"
    /\ variant.fn = "B"
    /\ PipelineConstructRan
    /\ ~FitsRevisionB
    /\ Cardinality(NamePrefixes) = 2

----------------------------------------------------------------------------
(* C27: sanitizePath *)

\* two neighbouring slashes
HasDoubleSlash(p) == \E i \in 1..(Len(p) - 1) : p[i] = "/" /\ p[i + 1] = "/"

NoOuterSlash(p) == Len(p) = 0 \/ (p[1] # "/" /\ p[Len(p)] # "/")

\* C27 as stated: sanitizePath applied to its own result returns it
\* unchanged; the result has no leading and no trailing '/'; in the revision that
\* collapses slashes the result has no two consecutive '/'; an undefined or
\* empty input gives the empty string
C27_SanitizeIdempotent ==
    /\ sanitized.applied >= 1 =>
          /\ NoOuterSlash(sanitized.once)
          /\ variant.fn = "B" => ~HasDoubleSlash(sanitized.once)
          /\ sanitized.input.chars = <<>> => sanitized.once = <<>>
    /\ sanitized.applied = 2 => sanitized.twice = sanitized.once

\* what the code does: in every revision the result has no leading and no
\* trailing '/' and an undefined or empty input gives the empty string; the
\* function of revision A (and part_004) is idempotent; the function of
\* revision B leaves no character outside its set, but slashes that were
\* separated only by such characters stay next to each other, so it is
\* idempotent exactly on the inputs whose result has no two consecutive '/'
C27_SanitizePerRevision ==
    /\ sanitized.applied >= 1 =>
          /\ NoOuterSlash(sanitized.once)
          /\ sanitized.input.chars = <<>> => sanitized.once = <<>>
          /\ variant.fn = "B" =>
                \A i \in 1..Len(sanitized.once) : ~Disallowed(sanitized.once[i])
    /\ sanitized.applied = 2 =>
          /\ variant.fn # "B" => sanitized.twice = sanitized.once
          /\ variant.fn = "B" =>
                (sanitized.twice = sanitized.once <=> ~HasDoubleSlash(sanitized.once))
          /\ ~HasDoubleSlash(sanitized.twice) \/ variant.fn # "B"

\* revision B on 'a/:/a': the result 'a//a' has two consecutive slashes and
\* a second application changes it
C27_Witness ==
    /\ variant.fn = "B"
    /\ sanitized.applied = 2
    /\ Len(sanitized.input.chars) = MaxPathLen
    /\ HasDoubleSlash(sanitized.once)
    /\ sanitized.twice # sanitized.once

----------------------------------------------------------------------------
(* C28: the order of the writes to the function's environment *)

\* the [key, value] entries of the objects of a list, in list order
RECURSIVE EntriesInOrder(_)
EntriesInOrder(envVars) ==
    IF envVars = <<>> THEN <<>>
    ELSE Head(envVars) \o EntriesInOrder(Tail(envVars))

\* the writes of the variables, then those of the secrets / parameters
VariableWrites(c) ==
    [i \in 1..Len(EntriesInOrder(c.variables)) |->
        [key |-> EntriesInOrder(c.variables)[i].key,
         val |-> <<"literal", EntriesInOrder(c.variables)[i].value>>]]

SecretWrites(c, kind) ==
    [i \in 1..Len(c.secrets) |->
        [key |-> c.secrets[i].key, val |-> <<kind, c.secrets[i].resource>>]]

\* the environment in which every key holds the value of its last write,
\* and a key never written holds its built-in value
LastWriteWins(builtIn, writes) ==
    [k \in DOMAIN builtIn \cup {writes[i].key : i \in 1..Len(writes)} |->
        IF \E i \in 1..Len(writes) : writes[i].key = k
        THEN writes[CHOOSE i \in 1..Len(writes) :
                        /\ writes[i].key = k
                        /\ \A j \in (i + 1)..Len(writes) : writes[j].key # k].val
        ELSE builtIn[k]]

NodeOptions == [k \in {"NODE_OPTIONS"} |-> <<"literal", "--enable-source-maps">>]
NodeOptionsAndPreset ==
    [k \in {"NODE_OPTIONS", "NITRO_PRESET"} |->
        IF k = "NODE_OPTIONS" THEN <<"literal", "--enable-source-maps">>
                              ELSE <<"literal", "aws-lambda">>]

\* C28 as stated: once the variables and the secrets have been added, the
\* function's environment is NODE_OPTIONS and NITRO_PRESET overwritten by the
\* entries of functionProps.variables in list order and then by the entries of
\* functionProps.secrets in list order, the last write of a key winning
C28_EnvironmentOrder ==
    Passed("fnSecrets") =>
        lambdaEnv = LastWriteWins(NodeOptionsAndPreset,
                                  VariableWrites(cfg) \o SecretWrites(cfg, "secret"))

\* what the code does: in the two revisions of functions.ts the environment is
\* as C28 states; in part_001 the built-in environment is NODE_OPTIONS alone, the
\* variables are not read, and the environmentVariables entries are written in
\* list order as parameter references
C28_EnvironmentPerRevision ==
    Passed("fnSecrets") =>
        /\ variant.fn # "old" =>
              lambdaEnv = LastWriteWins(NodeOptionsAndPreset,
                              VariableWrites(cfg) \o SecretWrites(cfg, "secret"))
        /\ variant.fn = "old" =>
              lambdaEnv = LastWriteWins(NodeOptions, SecretWrites(cfg, "parameter"))

\* a function of functions.ts whose variables write K1 twice and whose secret
\* K1 has replaced both values
C28_Witness ==
    /\ variant.fn # "old"
    /\ Passed("fnSecrets")
    /\ \E i, j \in 1..Len(VariableWrites(cfg)) :
          /\ i < j
          /\ VariableWrites(cfg)[i].key = "K1"
          /\ VariableWrites(cfg)[j].key = "K1"
          /\ VariableWrites(cfg)[i].val # VariableWrites(cfg)[j].val
    /\ Len(cfg.secrets) = 1
    /\ cfg.secrets[1].key = "K1"
    /\ lambdaEnv["K1"] = <<"secret", cfg.secrets[1].resource>>
    /\ lambdaEnv["K3"] = <<"literal", "v1">>

----------------------------------------------------------------------------
(* C29: the environment of the build project *)

\* the keys of the objects of buildProps.environment / of buildProps.secrets
PlainKeys ==
    UNION { { cfg.buildEnvironment[i][j].key : j \in 1..Len(cfg.buildEnvironment[i]) } :
            i \in 1..Len(cfg.buildEnvironment) }

SecretKeys == { cfg.buildSecrets[i].key : i \in 1..Len(cfg.buildSecrets) }

\* the build project's variable k is the parameter-store entry of the last
\* element of buildProps.secrets with that key
IsSecretEntry(k) ==
    \E i \in 1..Len(cfg.buildSecrets) :
        /\ cfg.buildSecrets[i].key = k
        /\ \A j \in (i + 1)..Len(cfg.buildSecrets) : cfg.buildSecrets[j].key # k
        /\ codePipeline.environmentVariables[k] =
              [value |-> cfg.buildSecrets[i].resource, type |-> "PARAMETER_STORE"]

\* a key of both lists holds the secret entry; ECR_REPO of the container flow
\* is the subject of the first half of C29 and is left to it
SecretsOverrideEnvironment ==
    \A k \in PlainKeys \cap SecretKeys :
        (IsContainerPipeline(cfg) /\ k = "ECR_REPO") \/ IsSecretEntry(k)

\* the pipeline created a repository and granted the build project push rights
PushGrantedOnCreatedRepository ==
    /\ PipelineHas("LambdaRepo")
    /\ PipelineHas("DockerBuildProject")
    /\ codePipeline.repository.grantPullPush = "DockerBuildProject"

\* C29 as stated: in the container flow ECR_REPO of the build project is the
\* URI of the repository the pipeline created and granted push rights on,
\* whatever buildProps.environment and buildProps.secrets contain; in both flows
\* a key of both lists holds the secret (parameter-store) entry
C29_EcrRepoAndSecrets ==
    PipelineConstructRan =>
        /\ IsContainerPipeline(cfg) =>
              /\ PushGrantedOnCreatedRepository
              /\ "ECR_REPO" \in DOMAIN codePipeline.environmentVariables
              /\ codePipeline.environmentVariables["ECR_REPO"].value =
                    codePipeline.repository.repositoryUri
        /\ SecretsOverrideEnvironment

\* what the code does: ECR_REPO is the created repository's URI exactly when
\* neither list has a key ECR_REPO; otherwise it is the user's entry, the
\* secret's if both lists have the key; in both flows a key of both lists
\* holds the secret entry
C29_EcrRepoUnlessOverridden ==
    PipelineConstructRan =>
        /\ IsContainerPipeline(cfg) =>
              /\ PushGrantedOnCreatedRepository
              /\ "ECR_REPO" \in DOMAIN codePipeline.environmentVariables
              /\ (codePipeline.environmentVariables["ECR_REPO"].value =
                     codePipeline.repository.repositoryUri)
                 <=> "ECR_REPO" \notin PlainKeys \cup SecretKeys
              /\ "ECR_REPO" \in SecretKeys => IsSecretEntry("ECR_REPO")
              /\ "ECR_REPO" \in PlainKeys \ SecretKeys =>
                    codePipeline.environmentVariables["ECR_REPO"].type = "PLAINTEXT"
        /\ SecretsOverrideEnvironment

\* a container pipeline whose buildProps.environment has a key ECR_REPO: the
\* build project pushes to what the user wrote, not to the created repository
C29_Witness ==
    /\ PipelineConstructRan
    /\ IsContainerPipeline(cfg)
    /\ "ECR_REPO" \in PlainKeys
    /\ "K1" \in PlainKeys \cap SecretKeys
    /\ codePipeline.environmentVariables["ECR_REPO"].value #
          codePipeline.repository.repositoryUri

----------------------------------------------------------------------------
(* C30: the command-line entry points *)

\* the run is one of an entry script (src/bin/app.ts or part_000)
ScriptEntry == variant.entry # "direct"

\* the script has tested the metadata
MetadataChecked == pc # "entryCheck"

\* what a script run looks like when the context error is thrown exactly for
\* the metadata values in the set missing
EntryPointFor(missing) ==
    ScriptEntry =>
        /\ (pc = "failed" /\ err = ErrContext) <=>
              (MetadataChecked /\ cfg.props \in missing)
        /\ err = ErrContext => app = NoApp
        /\ Len(app.stacks) <= 1
        /\ (cfg.props \notin missing /\ Passed("entryNewStack")) =>
              app.stacks = <<StackId(cfg)>>
        /\ app.synthesized =>
              /\ pc = "done"
              /\ err = NoError
              /\ app.stacks = <<StackId(cfg)>>
              /\ Count(resources, FunctionKinds) = 1

\* C30 as stated: the script throws 'Context metadata missing!' iff the
\* metadata context value is absent, and then no stack has been constructed;
\* when the metadata is present exactly one stack is constructed, named
\* application-service-environment-stack, and synth runs only after the stack
\* constructor has returned without error
C30_ThrowsIffAbsent == EntryPointFor({"none"})

\* C30, amended: the script throws 'Context metadata missing!' iff the
\* metadata context value is absent or falsy (the empty string is the falsy
\* value of the model), and then no stack has been constructed; for any other
\* metadata exactly one stack is constructed, named
\* application-service-environment-stack, and synth runs only after the stack
\* constructor has returned without error
C30_ThrowsIffFalsy == EntryPointFor({"none", "empty"})

\* src/bin/app.ts given the empty string as metadata: the context error, and
\* an App without a stack that was never synthesized
C30_Witness ==
    /\ variant.entry = "bin"
    /\ cfg.props = "empty"
    /\ pc = "failed"
    /\ err = ErrContext
    /\ app = NoApp
====
